---------------------------- MODULE Spec2Model ----------------------------
(***************************************************************************)
(* Design-analysis pipeline of the figma-eds-mcp-server:                   *)
(*   DesignAnalyzer.analyze            (analyzer, signal bag, field deriver)*)
(*   AnalyzerEnhancements              (confidence scorer, similarity      *)
(*                                      matcher, enhanceAnalysis)          *)
(*                                                                         *)
(* Strings whose characters the code inspects (block names, directory      *)
(* names, characteristics, field names) are sequences of one-character     *)
(* strings, so that String.includes and the edit distance are computed and *)
(* not assumed.                                                            *)
(***************************************************************************)
EXTENDS Integers, Sequences, FiniteSets, TLC

VARIABLES
    pc,               \* position of the call in progress
    caller,           \* who awaits the matcher: "enhance" or "direct"
    rawCode,          \* the markup handed to analyze / enhanceAnalysis
    analysis,         \* the BlockAnalysis object (mutated in place by enhanceAnalysis)
    confidence,       \* the ConfidenceScore object of enhanceAnalysis
    blocksDir,        \* the optional blocksDir argument of enhanceAnalysis
    fs,               \* the blocks directory as the file system holds it
    query,            \* arguments of findSimilarBlockPatterns
    blockDirs,        \* result of fs.readdir(blocksDir)
    idx,              \* position of the for..of loop over blockDirs
    patterns,         \* local `patterns` of findSimilarBlockPatterns
    similarPatterns,  \* value returned by findSimilarBlockPatterns
    warned,           \* console.warn was called by the catch block
    raisedAt,         \* the statement that threw, while the exception unwinds
    thrown,           \* an exception left the call in progress
    html,             \* the text handed to HTMLSimplifier.simplify, as tokens
    runs,             \* number of times simplify was applied to html
    ctaButtons,       \* analysis.interactions.ctaButtons
    calls,            \* the calls in progress on one analyzer instance, each with its locals
    arrays,           \* the `patterns` arrays the calls in progress have allocated
    existingBlocksCache,  \* the field AnalyzerEnhancements.existingBlocksCache (a Map)
    strA, strB,       \* two strings handed to stringSimilarity, as UTF-16 code units
    distance,         \* levenshteinDistance(strA, strB)
    nameSimilarity    \* stringSimilarity(strA, strB)

vars == <<pc, caller, rawCode, analysis, confidence, blocksDir, fs, query, blockDirs,
          idx, patterns, similarPatterns, warned, raisedAt, thrown, html, runs,
          ctaButtons, calls, arrays, existingBlocksCache, strA, strB, distance,
          nameSimilarity>>

-----------------------------------------------------------------------------
(* Bounds of the model *)

\* Largest number of entries in the blocks directory.
MaxCorpus == 2

\* Largest number of matches of one scanned pattern in the markup.
MaxCount == 2

\* longest text of freely chosen tokens handed to the simplifier
MaxTokens == 5

\* deepest nesting of unnamed wrappers handed to the simplifier
MaxDepth == 9

\* number of times the simplifier is applied to its own result
MaxRuns == 2

\* longest string, in characters, handed to stringSimilarity on its own
MaxChars == 2

-----------------------------------------------------------------------------
(* Character strings *)

\* An optional value: <<>> is undefined, <<v>> is the value v.
None == <<>>

Some(v) == <<v>>

IsSome(o) == Len(o) > 0

Get(o) == o[1]

s_carousel == <<"c", "a", "r", "o", "u", "s", "e", "l">>
s_slider == <<"s", "l", "i", "d", "e", "r">>
s_gallery == <<"g", "a", "l", "l", "e", "r", "y">>
s_card == <<"c", "a", "r", "d">>
s_grid == <<"g", "r", "i", "d">>
s_multi_item == <<"m", "u", "l", "t", "i", "-", "i", "t", "e", "m">>
s_single == <<"s", "i", "n", "g", "l", "e">>
s_repeating == <<"r", "e", "p", "e", "a", "t", "i", "n", "g">>
s_offer == <<"o", "f", "f", "e", "r">>
s_navigation == <<"n", "a", "v", "i", "g", "a", "t", "i", "o", "n">>
s_cards == <<"c", "a", "r", "d", "s">>
s_product == <<"p", "r", "o", "d", "u", "c", "t">>
s_pricing == <<"p", "r", "i", "c", "i", "n", "g">>
s_cta == <<"c", "t", "a">>
s_pagination == <<"p", "a", "g", "i", "n", "a", "t", "i", "o", "n">>
s_interactive == <<"i", "n", "t", "e", "r", "a", "c", "t", "i", "v", "e">>
s_images == <<"i", "m", "a", "g", "e", "s">>
s_media == <<"m", "e", "d", "i", "a">>
s_image == <<"i", "m", "a", "g", "e">>
s_button == <<"b", "u", "t", "t", "o", "n">>
s_container == <<"c", "o", "n", "t", "a", "i", "n", "e", "r">>
s_heading == <<"h", "e", "a", "d", "i", "n", "g">>
s_item == <<"i", "t", "e", "m">>

\* block and directory names
n_card_carousel == <<"c", "a", "r", "d", "-", "c", "a", "r", "o", "u", "s", "e", "l">>
n_hero == <<"h", "e", "r", "o">>
n_product_carousel ==
    <<"p", "r", "o", "d", "u", "c", "t", "-", "c", "a", "r", "o", "u", "s", "e", "l">>

n_plain_list == <<"p", "l", "a", "i", "n", "-", "l", "i", "s", "t">>

\* field names
f_heading == <<"h", "e", "a", "d", "i", "n", "g">>
f_icon == <<"i", "c", "o", "n">>
f_iconAlt == <<"i", "c", "o", "n", "A", "l", "t">>
f_description == <<"d", "e", "s", "c", "r", "i", "p", "t", "i", "o", "n">>
f_richContent == <<"r", "i", "c", "h", "C", "o", "n", "t", "e", "n", "t">>
f_ctaText == <<"c", "t", "a", "T", "e", "x", "t">>
f_containerTitle == <<"c", "o", "n", "t", "a", "i", "n", "e", "r", "T", "i", "t", "l", "e">>
f_itemHeading == <<"i", "t", "e", "m", "H", "e", "a", "d", "i", "n", "g">>
f_title == <<"t", "i", "t", "l", "e">>

\* String.prototype.includes
Includes(s, sub) ==
    \E i \in 0..(Len(s) - Len(sub)) : SubSeq(s, i + 1, i + Len(sub)) = sub

\* Array.prototype.some over a sequence of strings
SomeIncludes(list, sub) == \E i \in 1..Len(list) : Includes(list[i], sub)

Min3(a, b, c) == IF a <= b THEN (IF a <= c THEN a ELSE c) ELSE (IF b <= c THEN b ELSE c)

-----------------------------------------------------------------------------
(* Similarity arithmetic of the matcher *)

\* variant: a differing character costs an insertion and a deletion
RECURSIVE LevRow_NoSubstitution(_, _, _, _, _)
LevRow_NoSubstitution(prev, cur, i, str1, str2) ==
    IF Len(cur) = Len(str1) + 1 THEN cur
    ELSE LET j == Len(cur)
             v == IF str2[i] = str1[j]
                  THEN prev[j]
                  ELSE Min3(prev[j] + 2, cur[j] + 1, prev[j + 1] + 1)
         IN  LevRow_NoSubstitution(prev, Append(cur, v), i, str1, str2)

\* One row of `matrix`: row i from row i-1, cell j stored at index j+1.
RECURSIVE LevRow(_, _, _, _, _)
LevRow(prev, cur, i, str1, str2) ==
    IF Len(cur) = Len(str1) + 1 THEN cur
    ELSE LET j == Len(cur)
             v == IF str2[i] = str1[j]
                  THEN prev[j]
                  ELSE Min3(prev[j] + 1, cur[j] + 1, prev[j + 1] + 1)
         IN  LevRow(prev, Append(cur, v), i, str1, str2)

RECURSIVE LevRows(_, _, _, _)
LevRows(prev, i, str1, str2) ==
    IF i > Len(str2) THEN prev
    ELSE LevRows(LevRow(prev, <<i>>, i, str1, str2), i + 1, str1, str2)

\* matrix[str2.length][str1.length]
levenshteinDistance(str1, str2) ==
    LevRows([j \in 1..(Len(str1) + 1) |-> j - 1], 1, str1, str2)[Len(str1) + 1]

\* The quotient (longer.length - editDistance) / longer.length, kept as an
\* exact fraction num/den; 1.0 when both strings are empty.
stringSimilarity(str1, str2) ==
    LET longer  == IF Len(str1) > Len(str2) THEN str1 ELSE str2
        shorter == IF Len(str1) > Len(str2) THEN str2 ELSE str1
    IN  IF Len(longer) = 0 THEN [num |-> 1, den |-> 1]
        ELSE [num |-> Len(longer) - levenshteinDistance(longer, shorter),
              den |-> Len(longer)]

\* the value of nameSimilarity before stringSimilarity has run
NoSimilarity == [num |-> 0, den |-> 1]

\* Math.round of the non-negative fraction num/den (ties go up).
MathRound(num, den) == (2 * num + den) \div (2 * den)

\* existingModel.filters && existingModel.filters.length > 0
HasItems(model) == IsSome(model.filters) /\ Get(model.filters) > 0

\* variant: the carousel signal is not counted
StructuralMatches_NoCarousel(existingBlockName, chars, existingModel) ==
    (IF (SomeIncludes(chars, s_card) \/ SomeIncludes(chars, s_grid))
        /\ Includes(existingBlockName, s_card) THEN 1 ELSE 0)
    + (IF HasItems(existingModel)
          /\ (SomeIncludes(chars, s_multi_item) \/ SomeIncludes(chars, s_repeating))
       THEN 1 ELSE 0)

\* Number of the three structural signals that match.
StructuralMatches(existingBlockName, chars, existingModel) ==
    LET isCarousel == SomeIncludes(chars, s_carousel) \/ SomeIncludes(chars, s_slider)
        hasCarouselInName == Includes(existingBlockName, s_carousel)
                             \/ Includes(existingBlockName, s_slider)
        isCards == SomeIncludes(chars, s_card) \/ SomeIncludes(chars, s_grid)
        hasCardsInName == Includes(existingBlockName, s_card)
        needsItems == SomeIncludes(chars, s_multi_item) \/ SomeIncludes(chars, s_repeating)
    IN  (IF isCarousel /\ hasCarouselInName THEN 1 ELSE 0)
        + (IF isCards /\ hasCardsInName THEN 1 ELSE 0)
        + (IF HasItems(existingModel) /\ needsItems THEN 1 ELSE 0)

\* score = nameSimilarity * 30 + 35 per structural match; maxScore = 30 + 70;
\* result = Math.round((score / maxScore) * 100).
calculateSimilarity(blockName, existingBlockName, chars, existingModel) ==
    LET sim == stringSimilarity(blockName, existingBlockName)
        k   == StructuralMatches(existingBlockName, chars, existingModel)
    IN  MathRound(sim.num * 30 + 35 * k * sim.den, sim.den)

-----------------------------------------------------------------------------
(* The blocks directory and its schema documents *)

\* A field of a schema document: `component` may be missing.
CorpusField(name, component) == [name |-> name, component |-> component]

\* A parsed schema document:
\*   filters    - None, or Some(n) for an array of n filters
\*   modelsKind - "undefined", "notIterable" (a truthy non-array) or "array"
\*   models     - the model definitions, each with optional `fields`
ModelDoc(filters, modelsKind, models) ==
    [filters |-> filters, modelsKind |-> modelsKind, models |-> models]

EmptyDoc == ModelDoc(None, "undefined", <<>>)

\* a list block: block model plus item model, with a filter
DocItems ==
    ModelDoc(Some(1), "array",
        << [fields |-> Some(<< CorpusField(f_containerTitle, Some("text")),
                               CorpusField(f_heading, Some("text")) >>)],
           [fields |-> Some(<< CorpusField(f_itemHeading, Some("text")),
                               CorpusField(f_icon, Some("reference")),
                               CorpusField(f_iconAlt, None),
                               CorpusField(f_ctaText, Some("text")) >>)] >>)

\* a flat block: one model, no filter, one model definition without fields
DocFlat ==
    ModelDoc(None, "array",
        << [fields |-> None],
           [fields |-> Some(<< CorpusField(f_title, None),
                               CorpusField(f_description, Some("richtext")) >>)] >>)

\* a filter but no models key
DocNoModels == ModelDoc(Some(1), "undefined", <<>>)

\* `models` is present but is not an array
DocBadModels == ModelDoc(Some(1), "notIterable", <<>>)

\* an empty filter array
DocEmptyFilters == ModelDoc(Some(0), "array", <<>>)

ModelDocs == {DocItems, DocFlat, DocNoModels, DocBadModels, DocEmptyFilters}

DirNames == {n_card_carousel, n_product_carousel, n_plain_list, s_slider}

\* One entry of the blocks directory.  file: "missing" (no _<dir>.json),
\* "unparseable" (readJSON rejects), "null" (the document is JSON null), "ok".
Entry(dir, file, model) == [dir |-> dir, file |-> file, model |-> model]

Entries ==
    { Entry(d, f, EmptyDoc) : d \in DirNames, f \in {"missing", "unparseable", "null"} }
    \cup { Entry(d, "ok", m) : d \in DirNames, m \in ModelDocs }

DistinctDirs(l) == \A i, j \in 1..Len(l) : i # j => l[i].dir # l[j].dir

\* Sequences of at most n of the given entries.
RECURSIVE EntryLists(_, _)
EntryLists(entries, n) ==
    IF n = 0 THEN {<<>>}
    ELSE LET shorter == EntryLists(entries, n - 1)
         IN  shorter \cup
             { Append(l, e) : l \in {x \in shorter : Len(x) = n - 1},
                              e \in entries }

\* The states of a blocks directory: "missing" (pathExists is false),
\* "unlistable" (readdir rejects), or "ok" with at most MaxCorpus entries of
\* pairwise distinct names.
FileSystemsOver(entries) ==
    { [status |-> st, entries |-> <<>>] : st \in {"missing", "unlistable"} }
    \cup { [status |-> "ok", entries |-> l] :
             l \in {x \in EntryLists(entries, MaxCorpus) : DistinctDirs(x)} }

FileSystems == FileSystemsOver(Entries)

-----------------------------------------------------------------------------
(* The similarity matcher: findSimilarBlockPatterns *)

\* String.prototype.toLowerCase, one character
LowerChar(c) ==
    CASE c = "A" -> "a" [] c = "B" -> "b" [] c = "C" -> "c" [] c = "D" -> "d" [] c = "E" -> "e"
      [] c = "F" -> "f" [] c = "G" -> "g" [] c = "H" -> "h" [] c = "I" -> "i" [] c = "J" -> "j"
      [] c = "K" -> "k" [] c = "L" -> "l" [] c = "M" -> "m" [] c = "N" -> "n" [] c = "O" -> "o"
      [] c = "P" -> "p" [] c = "Q" -> "q" [] c = "R" -> "r" [] c = "S" -> "s" [] c = "T" -> "t"
      [] c = "U" -> "u" [] c = "V" -> "v" [] c = "W" -> "w" [] c = "X" -> "x" [] c = "Y" -> "y"
      [] c = "Z" -> "z"
      [] OTHER -> c

toLowerCase(str) == [i \in 1..Len(str) |-> LowerChar(str[i])]

\* A BlockField.  label, valueType, required, maxLength and description are
\* copied along by the code and read by nothing in the analysis; they are left out.
BlockField(name, component) == [name |-> name, component |-> component]

\* field.component || 'text'
FieldFromModel(field) ==
    BlockField(field.name, IF IsSome(field.component) THEN Get(field.component) ELSE "text")

RECURSIVE FieldsOfModels(_)
FieldsOfModels(models) ==
    IF models = <<>> THEN <<>>
    ELSE LET modelDef == Head(models)
             own == IF IsSome(modelDef.fields)
                    THEN [i \in 1..Len(Get(modelDef.fields)) |->
                              FieldFromModel(Get(modelDef.fields)[i])]
                    ELSE <<>>
         IN  own \o FieldsOfModels(Tail(models))

\* Defined for documents whose `models` is undefined or an array; a truthy
\* non-array makes the for..of throw (see LoopEntry).
extractFieldsFromModel(model) ==
    IF model.modelsKind = "undefined" THEN <<>> ELSE FieldsOfModels(model.models)

\* the fields of all model definitions of a document
ModelFields(model) ==
    IF model.modelsKind = "array"
    THEN UNION { { Get(model.models[i].fields)[k] : k \in 1..Len(Get(model.models[i].fields)) } :
                   i \in {j \in 1..Len(model.models) : IsSome(model.models[j].fields)} }
    ELSE {}

\* f.component === 'reference'
IsReferenceField(f) == f.component = Some("reference")

\* f.name?.toLowerCase().includes('cta')
IsCtaField(f) == Includes(toLowerCase(f.name), s_cta)

findSharedCharacteristics(chars, model) ==
    (IF SomeIncludes(chars, s_multi_item) /\ HasItems(model)
        THEN <<"Multi-item structure">> ELSE <<>>)
    \o (IF SomeIncludes(chars, s_image) /\ (\E f \in ModelFields(model) : IsReferenceField(f))
        THEN <<"Image fields">> ELSE <<>>)
    \o (IF (SomeIncludes(chars, s_cta) \/ SomeIncludes(chars, s_button))
           /\ (\E f \in ModelFields(model) : IsCtaField(f))
        THEN <<"CTA buttons">> ELSE <<>>)

SimilarBlockPattern(dir, similarity, shared, fields) ==
    [blockName |-> dir, similarity |-> similarity,
     sharedCharacteristics |-> shared, suggestedFields |-> fields]

\* variant: an entry at exactly 40 is kept
Survives_AtLeast40(similarity) == similarity >= 40

\* variant: an entry above 25 is kept
Survives_Above25(similarity) == similarity > 25

\* if (similarity > 40)
Survives(similarity) == similarity > 40

\* variant: an entry goes in front of the entries of equal similarity
RECURSIVE InsertDesc_Unstable(_, _)
InsertDesc_Unstable(sorted, p) ==
    IF sorted = <<>> THEN <<p>>
    ELSE IF Head(sorted).similarity > p.similarity
         THEN <<Head(sorted)>> \o InsertDesc_Unstable(Tail(sorted), p)
         ELSE <<p>> \o sorted

\* patterns.sort((a, b) => b.similarity - a.similarity): a stable sort,
\* highest similarity first.
RECURSIVE InsertDesc(_, _)
InsertDesc(sorted, p) ==
    IF sorted = <<>> THEN <<p>>
    ELSE IF Head(sorted).similarity >= p.similarity
         THEN <<Head(sorted)>> \o InsertDesc(Tail(sorted), p)
         ELSE <<p>> \o sorted

RECURSIVE SortBySimilarity(_)
SortBySimilarity(ps) ==
    IF ps = <<>> THEN <<>>
    ELSE InsertDesc(SortBySimilarity(SubSeq(ps, 1, Len(ps) - 1)), ps[Len(ps)])

\* where the matcher's result goes
ReturnPc == IF caller = "enhance" THEN "suggest" ELSE "returned"

\* variant: the try block encloses the loop only
InTry_LoopOnly(site) == site = "loop"

\* The statements enclosed by the try block of findSimilarBlockPatterns:
\* pathExists(blocksDir), readdir and the whole for..of loop.
InTry(site) == site \in {"pathExists", "readdir", "loop"}

\* if (!await fs.pathExists(blocksDir)) return [];
\* (fs-extra's pathExists resolves to false on any error; it never rejects)
PathExists ==
    /\ pc = "pathExists"
    /\ IF fs.status = "missing"
       THEN /\ similarPatterns' = <<>>
            /\ pc' = ReturnPc
       ELSE /\ pc' = "readdir"
            /\ UNCHANGED similarPatterns
    /\ UNCHANGED <<caller, rawCode, analysis, confidence, blocksDir, fs, query,
                   blockDirs, idx, patterns, warned, raisedAt, thrown>>
    /\ UNCHANGED <<html, runs, ctaButtons, calls, arrays, existingBlocksCache>>
    /\ UNCHANGED <<strA, strB, distance, nameSimilarity>>

\* const blockDirs = await fs.readdir(blocksDir);
Readdir ==
    /\ pc = "readdir"
    /\ IF fs.status = "unlistable"
       THEN /\ raisedAt' = "readdir"
            /\ pc' = "raise"
            /\ UNCHANGED <<blockDirs, idx>>
       ELSE /\ blockDirs' = [i \in 1..Len(fs.entries) |-> fs.entries[i].dir]
            /\ idx' = 1
            /\ pc' = "loop"
            /\ UNCHANGED raisedAt
    /\ UNCHANGED <<caller, rawCode, analysis, confidence, blocksDir, fs, query,
                   patterns, similarPatterns, warned, thrown>>
    /\ UNCHANGED <<html, runs, ctaButtons, calls, arrays, existingBlocksCache>>
    /\ UNCHANGED <<strA, strB, distance, nameSimilarity>>

\* One iteration of `for (const dir of blockDirs)`.
LoopEntry ==
    /\ pc = "loop"
    /\ idx <= Len(blockDirs)
    /\ LET entry == fs.entries[idx]
           dir == blockDirs[idx]
           similarity == calculateSimilarity(query.blockName, dir,
                                             query.characteristics, entry.model)
       IN  IF entry.file = "missing"
           THEN \* continue
                /\ idx' = idx + 1
                /\ UNCHANGED <<pc, patterns, raisedAt>>
           ELSE IF entry.file = "unparseable" \/ entry.file = "null"
           THEN \* readJSON rejects, or existingModel.filters on null throws
                /\ raisedAt' = "loop"
                /\ pc' = "raise"
                /\ UNCHANGED <<idx, patterns>>
           ELSE IF ~Survives(similarity)
           THEN /\ idx' = idx + 1
                /\ UNCHANGED <<pc, patterns, raisedAt>>
           ELSE IF entry.model.modelsKind = "notIterable"
           THEN \* for (const modelDef of model.models) throws
                /\ raisedAt' = "loop"
                /\ pc' = "raise"
                /\ UNCHANGED <<idx, patterns>>
           ELSE /\ patterns' = Append(patterns,
                       SimilarBlockPattern(dir, similarity,
                           findSharedCharacteristics(query.characteristics, entry.model),
                           extractFieldsFromModel(entry.model)))
                /\ idx' = idx + 1
                /\ UNCHANGED <<pc, raisedAt>>
    /\ UNCHANGED <<caller, rawCode, analysis, confidence, blocksDir, fs, query,
                   blockDirs, similarPatterns, warned, thrown>>
    /\ UNCHANGED <<html, runs, ctaButtons, calls, arrays, existingBlocksCache>>
    /\ UNCHANGED <<strA, strB, distance, nameSimilarity>>

\* the loop ran to its end
LoopEnd ==
    /\ pc = "loop"
    /\ idx > Len(blockDirs)
    /\ pc' = "sort"
    /\ UNCHANGED <<caller, rawCode, analysis, confidence, blocksDir, fs, query,
                   blockDirs, idx, patterns, similarPatterns, warned, raisedAt, thrown>>
    /\ UNCHANGED <<html, runs, ctaButtons, calls, arrays, existingBlocksCache>>
    /\ UNCHANGED <<strA, strB, distance, nameSimilarity>>

\* An exception unwinds: inside the try block the catch logs a warning and
\* execution continues after the try statement; anywhere else it leaves the call.
Unwind ==
    /\ pc = "raise"
    /\ IF InTry(raisedAt)
       THEN /\ warned' = TRUE
            /\ pc' = "sort"
            /\ UNCHANGED thrown
       ELSE /\ thrown' = TRUE
            /\ pc' = "failed"
            /\ UNCHANGED warned
    /\ raisedAt' = "none"
    /\ UNCHANGED <<caller, rawCode, analysis, confidence, blocksDir, fs, query,
                   blockDirs, idx, patterns, similarPatterns>>
    /\ UNCHANGED <<html, runs, ctaButtons, calls, arrays, existingBlocksCache>>
    /\ UNCHANGED <<strA, strB, distance, nameSimilarity>>

\* return patterns.sort(...)
SortReturn ==
    /\ pc = "sort"
    /\ similarPatterns' = SortBySimilarity(patterns)
    /\ pc' = ReturnPc
    /\ UNCHANGED <<caller, rawCode, analysis, confidence, blocksDir, fs, query,
                   blockDirs, idx, patterns, warned, raisedAt, thrown>>
    /\ UNCHANGED <<html, runs, ctaButtons, calls, arrays, existingBlocksCache>>
    /\ UNCHANGED <<strA, strB, distance, nameSimilarity>>

Matcher == PathExists \/ Readdir \/ LoopEntry \/ LoopEnd \/ Unwind \/ SortReturn

-----------------------------------------------------------------------------
(* BlockAnalysis and the confidence scorer: calculateConfidenceScore *)

\* The signal bag (debug.codeSignals).  repeatedContainerNames is the object
\* pattern -> count; a pattern without a match has no key.
SignalBag(repeated, headings, actionButtons, itemLike, multi, ctas) ==
    [repeatedContainerNames |-> repeated, distinctHeadings |-> headings,
     actionButtonCount |-> actionButtons, itemLikeContainerCount |-> itemLike,
     multiItemLikely |-> multi, semanticCtas |-> ctas]

\* Object.values(repeatedContainerNames).some(c => c >= 2)
HasRepeatedContainers(repeated) == \E p \in DOMAIN repeated : repeated[p] >= 2

\* The part of a BlockAnalysis that the analysis reads or writes:
\* itemFields and debug.codeSignals are optional.
BlockAnalysis(blockType, blockName, containerFields, itemFields, jsPattern, codeSignals) ==
    [blockType |-> blockType, blockName |-> blockName,
     containerFields |-> containerFields, itemFields |-> itemFields,
     jsPattern |-> jsPattern, codeSignals |-> codeSignals]

\* An entry of reasons / suggestions: the fixed text with the values the
\* template string interpolates (a count or a percentage, a block name).
Msg(text) == [text |-> text, n |-> 0, block |-> <<>>]

MsgN(text, n) == [text |-> text, n |-> n, block |-> <<>>]

MsgBlock(text, block, n) == [text |-> text, n |-> n, block |-> block]

\* (analysis.debug as any)?.codeSignals is truthy
HasSignals(a) == IsSome(a.codeSignals)

SignalsMulti(a) == HasSignals(a) /\ Get(a.codeSignals).multiItemLikely

\* Object.keys(codeSignals.repeatedContainerNames || {}).length > 0
SignalsRepeated(a) ==
    HasSignals(a) /\ DOMAIN (Get(a.codeSignals).repeatedContainerNames) # {}

\* codeSignals?.semanticCtas && codeSignals.semanticCtas.length > 0
HasCTAs(a) == HasSignals(a) /\ Len(Get(a.codeSignals).semanticCtas) > 0

HasContainerFields(a) == Len(a.containerFields) > 0

\* itemFields && itemFields.length > 0
HasItemFields(a) == IsSome(a.itemFields) /\ Len(Get(a.itemFields)) > 0

IsMulti(a) == a.blockType = "multi-item"

\* variant: the +20 is given only for a container name matched at least twice
RawBlockTypeScore_RepeatedTwice(a) ==
    50 + (IF HasSignals(a)
          THEN (IF SignalsMulti(a) THEN 30 ELSE 0)
               + (IF HasRepeatedContainers(Get(a.codeSignals).repeatedContainerNames)
                  THEN 20 ELSE 0)
          ELSE -20)

\* variant: the multi-item adjustment is subtracted
RawBlockTypeScore_MultiSubtracts(a) ==
    50 + (IF HasSignals(a)
          THEN (IF SignalsMulti(a) THEN -30 ELSE 0)
               + (IF SignalsRepeated(a) THEN 20 ELSE 0)
          ELSE -20)

\* blockTypeScore before normalisation
RawBlockTypeScore(a) ==
    50 + (IF HasSignals(a)
          THEN (IF SignalsMulti(a) THEN 30 ELSE 0)
               + (IF SignalsRepeated(a) THEN 20 ELSE 0)
          ELSE -20)

\* variant: the deductions are applied to single blocks as well
RawFieldExtractionScore_AnyBlockType(a) ==
    50 + (IF HasContainerFields(a) THEN 20 ELSE -30)
       + (IF HasItemFields(a) THEN 30 ELSE -40)
       + (IF HasCTAs(a) THEN 10 ELSE 0)

\* variant: missing container fields cost 40
RawFieldExtractionScore_ContainerMinus40(a) ==
    50 + (IF HasContainerFields(a) THEN 20 ELSE IF IsMulti(a) THEN -40 ELSE 0)
       + (IF HasItemFields(a) THEN 30 ELSE IF IsMulti(a) THEN -40 ELSE 0)
       + (IF HasCTAs(a) THEN 10 ELSE 0)

\* fieldExtractionScore before normalisation
RawFieldExtractionScore(a) ==
    50 + (IF HasContainerFields(a) THEN 20 ELSE IF IsMulti(a) THEN -30 ELSE 0)
       + (IF HasItemFields(a) THEN 30 ELSE IF IsMulti(a) THEN -40 ELSE 0)
       + (IF HasCTAs(a) THEN 10 ELSE 0)

\* variant: the CTA bonus is given without a reason
ScoreReasons_NoCtaReason(a) ==
    (IF SignalsMulti(a)
        THEN <<Msg("Multi-item indicators found in code structure")>> ELSE <<>>)
    \o (IF SignalsRepeated(a)
        THEN <<Msg("Repeated container patterns detected")>> ELSE <<>>)
    \o (IF HasContainerFields(a)
        THEN <<MsgN("Extracted container fields", Len(a.containerFields))>> ELSE <<>>)
    \o (IF HasItemFields(a)
        THEN <<MsgN("Extracted item fields", Len(Get(a.itemFields)))>> ELSE <<>>)

\* the pushes onto `reasons`, in program order
ScoreReasons(a) ==
    (IF SignalsMulti(a)
        THEN <<Msg("Multi-item indicators found in code structure")>> ELSE <<>>)
    \o (IF SignalsRepeated(a)
        THEN <<Msg("Repeated container patterns detected")>> ELSE <<>>)
    \o (IF HasContainerFields(a)
        THEN <<MsgN("Extracted container fields", Len(a.containerFields))>> ELSE <<>>)
    \o (IF HasItemFields(a)
        THEN <<MsgN("Extracted item fields", Len(Get(a.itemFields)))>> ELSE <<>>)
    \o (IF HasCTAs(a)
        THEN <<Msg("Successfully detected CTA buttons from code")>> ELSE <<>>)

\* the pushes onto `suggestions`, in program order
ScoreSuggestions(a) ==
    (IF ~HasSignals(a)
        THEN <<Msg("Provide generated code for better analysis")>> ELSE <<>>)
    \o (IF ~HasContainerFields(a) /\ IsMulti(a)
        THEN <<Msg("No container fields found - may need manual review")>> ELSE <<>>)
    \o (IF ~HasItemFields(a) /\ IsMulti(a)
        THEN <<Msg("No item fields found - block may need manual field definition")>>
        ELSE <<>>)

\* variant: the upper limit is not applied
Normalize_NoUpperLimit(score) == IF score < 0 THEN 0 ELSE score

\* Math.max(0, Math.min(100, score))
Normalize(score) == IF score < 0 THEN 0 ELSE IF score > 100 THEN 100 ELSE score

\* Math.round((blockTypeScore + fieldExtractionScore) / 2)
OverallScore(blockTypeScore, fieldExtractionScore) ==
    MathRound(blockTypeScore + fieldExtractionScore, 2)

calculateConfidenceScore(a) ==
    LET blockTypeScore == Normalize(RawBlockTypeScore(a))
        fieldExtractionScore == Normalize(RawFieldExtractionScore(a))
    IN  [overall |-> OverallScore(blockTypeScore, fieldExtractionScore),
         blockType |-> blockTypeScore,
         fieldExtraction |-> fieldExtractionScore,
         reasons |-> ScoreReasons(a),
         suggestions |-> ScoreSuggestions(a)]

\* the value of `confidence` before calculateConfidenceScore has run
NoConfidence ==
    [overall |-> 0, blockType |-> 0, fieldExtraction |-> 0,
     reasons |-> <<>>, suggestions |-> <<>>]

-----------------------------------------------------------------------------
(* Markup and the signal extractor: parseCodeSignals *)

\* A markup text, described by its length and by what the scans of the code
\* find in it:
\*   containerMatches - pattern -> number of matches, for the container-name
\*                      patterns with at least one match in the lower-cased text
\*   headingTexts     - heading texts of at most 60 characters, in match order
\*   actionButtons    - matches of the action-verb button/link patterns
\*   buttons, links   - texts of <button> and <a href> elements (real
\*                      destinations only), read from the lower-cased text
\*   divButtons       - texts of data-name="Button" containers, read from the
\*                      text as written
\*   itemLike, genericContainers, smallHeadings, bullets - match counts
\*   keywords         - further words the lower-cased text contains
\*   structure        - what parseRawCodeForMultiItemStructure extracts
Markup(length, containerMatches, headingTexts, actionButtons, buttons, links, divButtons, itemLike, genericContainers, smallHeadings, bullets, keywords, structure) ==
    [length |-> length, containerMatches |-> containerMatches,
     headingTexts |-> headingTexts, actionButtons |-> actionButtons,
     buttons |-> buttons, links |-> links, divButtons |-> divButtons,
     itemLike |-> itemLike, genericContainers |-> genericContainers,
     smallHeadings |-> smallHeadings, bullets |-> bullets,
     keywords |-> keywords, structure |-> structure]

\* result of parseRawCodeForMultiItemStructure
MultiItemStructure(containerHeading, containerIconPresent, itemHeadings, itemIconsPresent, itemDescriptions, itemLists, hasItemCTAs) ==
    [containerHeading |-> containerHeading,
     containerIconPresent |-> containerIconPresent,
     itemHeadings |-> itemHeadings, itemIconsPresent |-> itemIconsPresent,
     itemDescriptions |-> itemDescriptions, itemLists |-> itemLists,
     hasItemCTAs |-> hasItemCTAs]

\* { text, href?, type }
Cta(text, type) == [text |-> text, type |-> type]

\* Array.from(new Set(list)): first occurrences, in order
RECURSIVE Distinct(_)
Distinct(list) ==
    IF list = <<>> THEN <<>>
    ELSE LET front == Distinct(SubSeq(list, 1, Len(list) - 1))
             last == list[Len(list)]
         IN  IF \E i \in 1..Len(front) : front[i] = last THEN front
             ELSE Append(front, last)

\* semanticCtas.filter(c => first time c.text.toLowerCase() is seen)
RECURSIVE DedupeCtas(_)
DedupeCtas(ctas) ==
    IF ctas = <<>> THEN <<>>
    ELSE LET front == DedupeCtas(SubSeq(ctas, 1, Len(ctas) - 1))
             last == ctas[Len(ctas)]
         IN  IF \E i \in 1..Len(front) :
                    toLowerCase(front[i].text) = toLowerCase(last.text)
             THEN front
             ELSE Append(front, last)

\* rawCode.length < 40
MinCodeLength == 40

ZeroSignals == SignalBag(<<>>, <<>>, 0, 0, FALSE, <<>>)

GenericContainerMultiItemSignal(code) ==
    code.genericContainers >= 2 /\ (code.smallHeadings >= 2 \/ code.bullets >= 4)

\* variant: two headings count only together with an action button
MultiItemLikely_WithAction(code) ==
    \/ HasRepeatedContainers(code.containerMatches)
    \/ (Len(Distinct(code.headingTexts)) >= 2 /\ code.actionButtons >= 1)
    \/ code.itemLike >= 2
    \/ GenericContainerMultiItemSignal(code)

MultiItemLikely(code) ==
    \/ HasRepeatedContainers(code.containerMatches)
    \/ Len(Distinct(code.headingTexts)) >= 2
    \/ code.itemLike >= 2
    \/ GenericContainerMultiItemSignal(code)

parseCodeSignals(code) ==
    IF code.length = 0 \/ code.length < MinCodeLength THEN ZeroSignals
    ELSE SignalBag(code.containerMatches,
                   Distinct(code.headingTexts),
                   code.actionButtons,
                   code.itemLike,
                   MultiItemLikely(code),
                   DedupeCtas(
                       [i \in 1..Len(code.buttons) |->
                            Cta(toLowerCase(code.buttons[i]), "button")]
                       \o [i \in 1..Len(code.links) |->
                            Cta(toLowerCase(code.links[i]), "link")]
                       \o [i \in 1..Len(code.divButtons) |->
                            Cta(code.divButtons[i], "button")]))

-----------------------------------------------------------------------------
(* The analyzer: DesignAnalyzer.analyze *)

LowerLetters == {"a", "b", "c", "d", "e", "f", "g", "h", "i", "j", "k", "l", "m",
                 "n", "o", "p", "q", "r", "s", "t", "u", "v", "w", "x", "y", "z"}

Digits == <<"0", "1", "2", "3", "4", "5", "6", "7", "8", "9">>

IsDigit(c) == \E i \in 1..10 : Digits[i] = c

\* replace(/[^a-z0-9\s-]/g, '')
KeepNameChars(str) ==
    SelectSeq(str, LAMBDA c : c \in LowerLetters \/ IsDigit(c) \/ c = " " \/ c = "-")

\* replace(/\s+/g, '-') when from = " ", replace(/-+/g, '-') when from = "-"
RECURSIVE ReplaceRuns(_, _)
ReplaceRuns(str, from) ==
    IF str = <<>> THEN <<>>
    ELSE IF Head(str) # from THEN <<Head(str)>> \o ReplaceRuns(Tail(str), from)
    ELSE IF Len(str) > 1 /\ str[2] = from THEN ReplaceRuns(Tail(str), from)
    ELSE <<"-">> \o ReplaceRuns(Tail(str), from)

\* replace(/^-|-$/g, '')
TrimDash(str) ==
    LET noLead == IF str # <<>> /\ Head(str) = "-" THEN Tail(str) ELSE str
    IN  IF noLead # <<>> /\ noLead[Len(noLead)] = "-"
        THEN SubSeq(noLead, 1, Len(noLead) - 1)
        ELSE noLead

sanitizeBlockName(name) ==
    TrimDash(ReplaceRuns(ReplaceRuns(KeepNameChars(toLowerCase(name)), " "), "-"))

\* variant: the index is dropped
IndexedName_NoIndex(base, index) == base

\* `${base}${index || ''}`
IndexedName(base, index) == IF index = 0 THEN base ELSE base \o <<Digits[index + 1]>>

f_text == <<"t", "e", "x", "t">>

f_cta == <<"c", "t", "a">>

f_image == <<"i", "m", "a", "g", "e">>

f_Alt == <<"A", "l", "t">>

\* A design node: a root frame of the given name whose children are text
\* nodes and image rectangles (no frames, no buttons).
\*   texts  - the text nodes in order: TRUE is a short title of font size 32,
\*            FALSE a plain sentence of 21..99 characters of font size 16,
\*            without list markers or action words
\*   images - the number of image nodes
FigmaNode(name, texts, images) == [name |-> name, texts |-> texts, images |-> images]

\* extractAllFields: one field per text node, then image/alt pairs
extractAllFields(textNodes, imageNodes) ==
    [i \in 1..Len(textNodes) |->
        IF textNodes[i]
        THEN BlockField(IndexedName(f_heading, i - 1), "text")
        ELSE BlockField(IndexedName(f_text, i - 1), "richtext")]
    \o [k \in 1..(2 * imageNodes) |->
        IF k % 2 = 1
        THEN BlockField(IndexedName(f_image, (k - 1) \div 2), "reference")
        ELSE BlockField(IndexedName(f_image, (k - 1) \div 2) \o f_Alt, "text")]

\* the priority carousel > cards > decorated of the markup-driven pass
JsPatternFor(blockNameLower, itemFields) ==
    LET isCarouselBlock == \/ Includes(blockNameLower, s_carousel)
                           \/ Includes(blockNameLower, s_slider)
                           \/ Includes(blockNameLower, s_gallery)
        isCardBlock == Includes(blockNameLower, s_card)
        hasRichtext == \E i \in 1..Len(itemFields) : itemFields[i].component = "richtext"
    IN  IF isCarouselBlock THEN "carousel"
        ELSE IF isCardBlock THEN "cards"
        ELSE IF hasRichtext THEN "decorated" ELSE "cards"

\* container fields of the markup-driven pass
ContainerFieldsFromStructure(extracted) ==
    (IF extracted.containerHeading THEN <<BlockField(f_heading, "text")>> ELSE <<>>)
    \o (IF extracted.containerIconPresent
        THEN <<BlockField(f_icon, "reference"), BlockField(f_iconAlt, "text")>>
        ELSE <<>>)

\* item fields of the markup-driven pass
ItemFieldsFromStructure(extracted) ==
    (IF extracted.itemHeadings > 0 THEN <<BlockField(f_heading, "text")>> ELSE <<>>)
    \o (IF extracted.itemIconsPresent
        THEN <<BlockField(f_icon, "reference"), BlockField(f_iconAlt, "text")>>
        ELSE <<>>)
    \o (IF extracted.itemDescriptions > 0
        THEN <<BlockField(f_description, "text")>> ELSE <<>>)
    \o (IF extracted.itemLists THEN <<BlockField(f_richContent, "richtext")>> ELSE <<>>)
    \o (IF extracted.hasItemCTAs
        THEN <<BlockField(f_cta, "text"), BlockField(f_ctaText, "text")>>
        ELSE <<>>)

f_simpleContent == <<"s", "i", "m", "p", "l", "e", "C", "o", "n", "t", "e", "n", "t">>

f_richText == <<"r", "i", "c", "h", "T", "e", "x", "t">>

f_primaryCta == <<"p", "r", "i", "m", "a", "r", "y", "C", "t", "a">>

f_secondaryCta == <<"s", "e", "c", "o", "n", "d", "a", "r", "y", "C", "t", "a">>

f_Text == <<"T", "e", "x", "t">>

\* variant: no Alt field follows an image field
ImageFields_NoAlt(imageNodes) ==
    [k \in 1..imageNodes |-> BlockField(IndexedName(f_image, k - 1), "reference")]

\* index === 0 ? 'image' : `image${index}`, each followed by its Alt field
ImageFields(imageNodes) ==
    [k \in 1..(2 * imageNodes) |->
        IF k % 2 = 1
        THEN BlockField(IndexedName(f_image, (k - 1) \div 2), "reference")
        ELSE BlockField(IndexedName(f_image, (k - 1) \div 2) \o f_Alt, "text")]

\* primaryCta, primaryCtaText, then secondaryCta, secondaryCtaText
CtaFields(ctas) ==
    (IF ctas >= 1
     THEN <<BlockField(f_primaryCta, "text"), BlockField(f_primaryCta \o f_Text, "text")>>
     ELSE <<>>)
    \o (IF ctas >= 2
        THEN <<BlockField(f_secondaryCta, "text"),
               BlockField(f_secondaryCta \o f_Text, "text")>>
        ELSE <<>>)

\* number of sentences (lines longer than 20 characters) among text nodes
Paragraphs(textNodes) == Cardinality({i \in 1..Len(textNodes) : ~textNodes[i]})

\* findMainHeading: the first text node of the largest font size
MainHeadingIndex(textNodes) ==
    IF \E i \in 1..Len(textNodes) : textNodes[i]
    THEN CHOOSE i \in 1..Len(textNodes) :
            textNodes[i] /\ \A j \in 1..(i - 1) : ~textNodes[j]
    ELSE 1

\* findContainerTextContent: "rich", "simple" or "none" for the text nodes
\* other than the main heading
findContainerTextContent(textNodes) ==
    LET main == MainHeadingIndex(textNodes)
        others == [i \in 1..(Len(textNodes) - 1) |->
                      IF i < main THEN textNodes[i] ELSE textNodes[i + 1]]
    IN  IF Len(textNodes) <= 1 THEN "none"
        ELSE IF Paragraphs(others) > 1 THEN "rich" ELSE "simple"

\* the container-name patterns that include 'list' or 'item'
ListLikePatterns ==
    {"accordion item", "service item", "tab item", "carousel item", "gallery item"}

\* no CTAs, and list-like container names or at least two headings
isCodeBasedListComponent(codeSignals) ==
    /\ Len(codeSignals.semanticCtas) = 0
    /\ \/ \E p \in DOMAIN codeSignals.repeatedContainerNames : p \in ListLikePatterns
       \/ Len(codeSignals.distinctHeadings) >= 2

containerKeywords ==
    { <<"v", "i", "e", "w", " ", "a", "l", "l">>,
      <<"s", "e", "e", " ", "m", "o", "r", "e">>,
      <<"g", "e", "t", " ", "s", "t", "a", "r", "t", "e", "d">>,
      <<"l", "e", "a", "r", "n", " ", "m", "o", "r", "e", " ", "a", "b", "o", "u", "t", " ", "u", "s">>,
      <<"c", "o", "n", "t", "a", "c", "t", " ", "u", "s">> }

\* the text of the CTA includes one of the container-level phrases
IsContainerLevelCta(cta) ==
    \E k \in containerKeywords : Includes(toLowerCase(cta.text), k)

\* findContainerCTAs: at most two of the semantic CTAs (the node has no buttons)
findContainerCTAs(codeSignals) ==
    IF Len(codeSignals.semanticCtas) > 2 THEN 2 ELSE Len(codeSignals.semanticCtas)

\* findItemCTAs: at most two of the item-specific semantic CTAs
findItemCTAs(codeSignals) ==
    LET itemSpecific == SelectSeq(codeSignals.semanticCtas,
                                  LAMBDA c : ~IsContainerLevelCta(c))
    IN  IF Len(itemSpecific) > 2 THEN 2 ELSE Len(itemSpecific)

\* analyzeContainerFields of the node-driven pass
analyzeContainerFields(textNodes, imageNodes, codeSignals) ==
    (IF Len(textNodes) > 0 THEN <<BlockField(f_heading, "text")>> ELSE <<>>)
    \o ImageFields(imageNodes)
    \o (CASE findContainerTextContent(textNodes) = "simple" ->
                <<BlockField(f_text, "text")>>
          [] findContainerTextContent(textNodes) = "rich" ->
                <<BlockField(f_richText, "richtext")>>
          [] OTHER -> <<>>)
    \o (IF isCodeBasedListComponent(codeSignals) THEN <<>>
        ELSE CtaFields(findContainerCTAs(codeSignals)))

\* analyzeActualContent: the item fields of the node-driven pass
analyzeActualContent(textNodes, itemImageNodes, codeSignals) ==
    (IF Len(textNodes) > 0 THEN <<BlockField(f_heading, "text")>> ELSE <<>>)
    \o ImageFields(itemImageNodes)
    \o (IF Paragraphs(textNodes) > 1 THEN <<BlockField(f_richContent, "richtext")>>
        ELSE IF Len(textNodes) > 0 THEN <<BlockField(f_simpleContent, "text")>>
        ELSE <<>>)
    \o CtaFields(findItemCTAs(codeSignals))

\* the priority cards > decorated of the node-driven pass
JsPatternForNode(blockNameLower, itemFields) ==
    LET isCardBlock == Includes(blockNameLower, s_card)
        hasRichtext == \E i \in 1..Len(itemFields) : itemFields[i].component = "richtext"
    IN  IF isCardBlock THEN "cards" ELSE IF hasRichtext THEN "decorated" ELSE "cards"

\* analyzeContentStructure applied to the analysis that analyze has just
\* built (containerFields: [], itemFields: [], jsPattern: 'cards').
\* A multi-item block takes the markup-driven pass when the code is longer
\* than 40 characters and the node-driven pass otherwise (the images of the
\* node lie in no item container, so all of them are container images).  A
\* single block takes all fields from the node.
analyzeContentStructure(node, a, code) ==
    IF a.blockType = "multi-item" /\ code.length > 40
    THEN LET extracted == code.structure
             itemFields == ItemFieldsFromStructure(extracted)
         IN  [a EXCEPT !.containerFields = ContainerFieldsFromStructure(extracted),
                       !.itemFields = Some(itemFields),
                       !.jsPattern = JsPatternFor(
                            toLowerCase(sanitizeBlockName(node.name)), itemFields)]
    ELSE IF a.blockType = "multi-item"
    THEN LET itemFields == analyzeActualContent(node.texts, 0, Get(a.codeSignals))
         IN  [a EXCEPT !.containerFields =
                           analyzeContainerFields(node.texts, node.images,
                                                  Get(a.codeSignals)),
                       !.itemFields = Some(itemFields),
                       !.jsPattern = JsPatternForNode(toLowerCase(a.blockName),
                                                      itemFields)]
    ELSE [a EXCEPT !.containerFields = extractAllFields(node.texts, node.images)]

\* deduped.slice(0, 3)
CtaCap == 3

\* String.prototype.trim on a text of characters
RECURSIVE TrimText(_)
TrimText(str) ==
    IF str = <<>> THEN <<>>
    ELSE IF Head(str) = " " THEN TrimText(Tail(str))
    ELSE IF str[Len(str)] = " " THEN TrimText(SubSeq(str, 1, Len(str) - 1))
    ELSE str

\* c.text.trim().toLowerCase()
NormText(cta) == toLowerCase(TrimText(cta.text))

\* semanticCtas.filter(c => norm is not empty and is seen for the first time)
RECURSIVE DedupeByNorm(_)
DedupeByNorm(ctas) ==
    IF ctas = <<>> THEN <<>>
    ELSE LET front == DedupeByNorm(SubSeq(ctas, 1, Len(ctas) - 1))
             last == ctas[Len(ctas)]
         IN  IF NormText(last) = <<>> \/ \E i \in 1..Len(front) : NormText(front[i]) = NormText(last)
             THEN front
             ELSE Append(front, last)

\* { text, type, url }: the url is read by nothing in the analysis
CTAButton(text, type) == [text |-> text, type |-> type]

\* variant: the list is not cut
LimitCtas_NoCap(deduped) == deduped

\* deduped.slice(0, 3)
LimitCtas(deduped) == SubSeq(deduped, 1, IF Len(deduped) < CtaCap THEN Len(deduped) ELSE CtaCap)

\* analyzeInteractions: the CTAs of the signal bag, and without any the
\* button nodes of the design, of which the nodes of the model have none
analyzeInteractions(codeSignals) ==
    IF Len(codeSignals.semanticCtas) > 0
    THEN LET limited == LimitCtas(DedupeByNorm(codeSignals.semanticCtas))
         IN  [i \in 1..Len(limited) |->
                 CTAButton(limited[i].text, IF i = 1 THEN "primary" ELSE "secondary")]
    ELSE <<>>

\* variant: blockType from the number of headings
BlockTypeOf_ByHeadings(codeSignals) ==
    IF Len(codeSignals.distinctHeadings) >= 2 THEN "multi-item" ELSE "single"

\* blockType from the signal bag
BlockTypeOf(codeSignals) == IF codeSignals.multiItemLikely THEN "multi-item" ELSE "single"

\* rawCode.length > 100: the code is simplified before it is scanned
SimplifyAbove == 100

\* analyze(node, rawCode), given the simplifier's output for rawCode
analyze(node, code, simplified) ==
    LET processedCode == IF code.length > SimplifyAbove THEN simplified ELSE code
        codeSignals == parseCodeSignals(processedCode)
        initial == BlockAnalysis(BlockTypeOf(codeSignals),
                                 sanitizeBlockName(node.name),
                                 <<>>, Some(<<>>), "cards", Some(codeSignals))
    IN  analyzeContentStructure(node, initial, processedCode)

-----------------------------------------------------------------------------
(* enhanceAnalysis *)

BlockTypeString(blockType) == IF blockType = "multi-item" THEN s_multi_item ELSE s_single

\* rawCode.toLowerCase().includes(word): a <button> element or a
\* data-name="Button" container puts the word button into the text
Mentions(code, word) ==
    \/ word \in code.keywords
    \/ word = "button" /\ (Len(code.buttons) > 0 \/ Len(code.divButtons) > 0)

extractCharacteristics(a, code) ==
    <<BlockTypeString(a.blockType)>>
    \o (IF Includes(a.blockName, s_carousel)
        THEN <<s_carousel, s_slider, s_navigation>> ELSE <<>>)
    \o (IF Includes(a.blockName, s_card)
        THEN <<s_cards, s_grid, s_multi_item>> ELSE <<>>)
    \o (IF Includes(a.blockName, s_offer)
        THEN <<s_product, s_pricing, s_cta>> ELSE <<>>)
    \o (IF Mentions(code, "chevron") \/ Mentions(code, "arrow")
        THEN <<s_navigation, s_carousel>> ELSE <<>>)
    \o (IF Mentions(code, "indicator") \/ Mentions(code, "dot")
        THEN <<s_pagination, s_carousel>> ELSE <<>>)
    \o (IF Mentions(code, "button") \/ Mentions(code, "cta")
        THEN <<s_cta, s_interactive>> ELSE <<>>)
    \o (IF Mentions(code, "img") \/ Mentions(code, "picture")
        THEN <<s_images, s_media>> ELSE <<>>)

\* the filter applied to the best match's suggestedFields
KeepSuggestedField(f) ==
    \/ ~Includes(f.name, s_container) /\ ~Includes(f.name, s_heading)
    \/ Includes(f.name, s_item)

\* variant: a score of exactly 70 also calls the matcher
ConsultsMatcher_AtMost70(conf, dir) == conf.overall <= 70 /\ IsSome(dir)

\* if (confidence.overall < 70 && blocksDir)
ConsultsMatcher(conf, dir) == conf.overall < 70 /\ IsSome(dir)

\* enhanceAnalysis up to the call of the matcher: the confidence score is
\* computed and, for a low score with a blocks directory, the matcher is called.
EnhanceBegin(dir, dirState) ==
    /\ pc = "analyzed"
    /\ blocksDir' = dir
    /\ fs' = dirState
    /\ confidence' = calculateConfidenceScore(analysis)
    /\ IF ConsultsMatcher(confidence', dir)
       THEN /\ query' = [blockName |-> analysis.blockName,
                         characteristics |-> extractCharacteristics(analysis, rawCode)]
            /\ caller' = "enhance"
            /\ patterns' = <<>>
            /\ pc' = "pathExists"
       ELSE /\ pc' = "suggest"
            /\ UNCHANGED <<query, caller, patterns>>
    /\ similarPatterns' = <<>>
    /\ UNCHANGED <<rawCode, analysis, blockDirs, idx, warned, raisedAt, thrown>>
    /\ UNCHANGED <<html, runs, ctaButtons, calls, arrays, existingBlocksCache>>
    /\ UNCHANGED <<strA, strB, distance, nameSimilarity>>

\* enhanceAnalysis after the matcher: fields are borrowed from the best match
\* when itemFields is missing, a suggestion is appended, the triple is returned.
EnhanceFinish ==
    /\ pc = "suggest"
    /\ IF confidence.fieldExtraction < 50 /\ Len(similarPatterns) > 0
       THEN LET bestMatch == similarPatterns[1]
            IN  /\ analysis' =
                     IF analysis.blockType = "multi-item" /\ ~IsSome(analysis.itemFields)
                     THEN [analysis EXCEPT !.itemFields =
                              Some(SelectSeq(bestMatch.suggestedFields, KeepSuggestedField))]
                     ELSE analysis
                /\ confidence' = [confidence EXCEPT !.suggestions =
                       Append(@, MsgBlock("Consider using field structure from similar block",
                                          bestMatch.blockName, bestMatch.similarity))]
       ELSE UNCHANGED <<analysis, confidence>>
    /\ pc' = "done"
    /\ UNCHANGED <<caller, rawCode, blocksDir, fs, query, blockDirs, idx, patterns,
                   similarPatterns, warned, raisedAt, thrown>>
    /\ UNCHANGED <<html, runs, ctaButtons, calls, arrays, existingBlocksCache>>
    /\ UNCHANGED <<strA, strB, distance, nameSimilarity>>

-----------------------------------------------------------------------------
(* Inputs *)

t_buy == <<"B", "u", "y">>

n_Design_Context_Root == <<"D", "e", "s", "i", "g", "n", " ", "C", "o", "n", "t", "e", "x", "t", " ", "R", "o", "o", "t">>

n_Card_Carousel == <<"C", "a", "r", "d", " ", " ", "C", "a", "r", "o", "u", "s", "e", "l", "!">>

n_Hero == <<"H", "e", "r", "o">>

NoStructure == MultiItemStructure(FALSE, FALSE, 0, FALSE, 0, FALSE, FALSE)

Structures ==
    { NoStructure,
      MultiItemStructure(TRUE, FALSE, 0, FALSE, 0, FALSE, FALSE),
      MultiItemStructure(TRUE, TRUE, 2, TRUE, 0, FALSE, TRUE),
      MultiItemStructure(FALSE, FALSE, 2, FALSE, 2, TRUE, FALSE) }

\* n matches of the pattern 'card'
CardMatches(n) == [p \in (IF n = 0 THEN {} ELSE {"card"}) |-> n]

\* n distinct heading texts
HeadingList(n) == [i \in 1..n |-> <<"h", Digits[i + 1]>>]

EmptyMarkup == Markup(0, CardMatches(0), <<>>, 0, <<>>, <<>>, <<>>, 0, 0, 0, 0, {}, NoStructure)

\* a text below the minimum length, e.g. <h1>a</h1>
ShortMarkup ==
    Markup(10, CardMatches(0), HeadingList(1), 0, <<>>, <<>>, <<>>, 0, 0, 0, 0, {}, NoStructure)

\* texts of exactly the minimum length: two headings with or without a
\* button, e.g. <h1>a</h1><h1>b</h1><button>buy</button>, or the word card twice
BoundaryMarkups ==
    { Markup(40, CardMatches(0), HeadingList(2), 0, b, <<>>, <<>>, 0, 0, 0, 0, {}, NoStructure) :
        b \in {<<>>, <<t_buy>>} }
    \cup { Markup(40, CardMatches(2), <<>>, 0, <<>>, <<>>, <<>>, 0, 0, 0, 0, {}, NoStructure) }

\* texts between the minimum length and the simplifier's threshold
MediumMarkups ==
    { Markup(60, CardMatches(n), HeadingList(h), Len(b), b, <<>>, <<>>,
             il, g[1], g[2], g[3], kw, st) :
        n \in 0..MaxCount, h \in 0..MaxCount, b \in {<<>>, <<t_buy>>},
        il \in {0, 2}, g \in {<<0, 0, 0>>, <<2, 2, 0>>},
        kw \in {{}, {"chevron"}}, st \in Structures }

\* texts around the thresholds of the generic-container heuristic: the
\* attributes data-name="container" and data-name="heading" and bullet
\* markers, outside any element
HeuristicMarkups ==
    { Markup(90, CardMatches(0), <<>>, 0, <<>>, <<>>, <<>>, 0, g[1], g[2], g[3], {}, NoStructure) :
        g \in {<<2, 1, 4>>, <<2, 1, 3>>, <<1, 2, 4>>} }

\* texts above the simplifier's threshold; they are scanned only after
\* simplification, so only the words they contain are described
LongMarkups ==
    { Markup(200, CardMatches(0), <<>>, 0, <<>>, <<>>, <<>>, 0, 0, 0, 0, kw, NoStructure) :
        kw \in {{}, {"chevron"}} }

\* A heading element and a paragraph of 300 lower-case characters:
\* <h1>h1</h1><p>...</p>
HeadingAndParagraph ==
    Markup(11 + 307, CardMatches(0), HeadingList(1), 0, <<>>, <<>>, <<>>, 0, 0, 0, 0, {}, NoStructure)

\* n containers <div data-name="Card">..</div>, each with a heading and a
\* link <a href="/buy">Buy</a>.
\*   hs - "element": the heading is <h3>h1</h3>;
\*        "named":   it is <div data-name="Heading"><p>h1</p></div>
\*   bs - "link":    the link stands alone;
\*        "named":   it is wrapped in <div data-name="Button">..</div>
\* The scans find: 'card' n times, the <h3> texts, no <button>, the n links
\* and the n Button containers; the structure parser finds an item heading
\* per card only below data-name="Heading" and a CTA only for a data-name
\* that includes Button.
CardsMarkup(n, hs, bs) ==
    Markup(n * (28 + (IF hs = "named" THEN 40 ELSE 11) + (IF bs = "named" THEN 52 ELSE 22)),
           CardMatches(n),
           IF hs = "element" THEN HeadingList(n) ELSE <<>>,
           0, <<>>,
           [i \in 1..n |-> t_buy],
           IF bs = "named" THEN [i \in 1..n |-> t_buy] ELSE <<>>,
           n, 0,
           IF hs = "named" THEN n ELSE 0,
           0, {},
           MultiItemStructure(FALSE, FALSE, IF hs = "named" THEN n ELSE 0, FALSE, 0,
                              FALSE, bs = "named"))

CardsMarkups == { CardsMarkup(3, hs, bs) : hs \in {"element", "named"}, bs \in {"link", "named"} }

\* One use of the Card component, <Card title="A" text=".." buttonText="Buy"
\* icon={x} />, by the props it has: a title of at most 150 characters, a
\* text of 20 to 500 characters, a buttonText, an icon.
CardUse(title, text, buttonText, icon) ==
    [title |-> title, text |-> text, buttonText |-> buttonText, icon |-> icon]

\* segment.match(/prop=.../) on rawCode.substring(startPos, startPos + 800):
\* in a text of under 800 characters the segment of a use runs to the end of
\* the text, so the prop is found if this use or a later one has it
PropInSegment(cards, i, prop) == \E j \in i..Len(cards) : cards[j][prop]

\* parseRawCodeForMultiItemStructure on a text that consists of uses of the
\* Card component: cardComponentMatches.length > 0, no Card div, no
\* Container div, no data-name="Heading", no bullet paragraph, no heading phrase
parseCardComponents(cards) ==
    MultiItemStructure(FALSE, FALSE,
        Cardinality({i \in 1..Len(cards) : PropInSegment(cards, i, "title")}),
        \E i \in 1..Len(cards) : PropInSegment(cards, i, "icon"),
        Cardinality({i \in 1..Len(cards) : PropInSegment(cards, i, "text")}),
        FALSE,
        Len(cards) > 0)

\* the length of a use: <Card />, and each prop with a value as short as may be
CardUseLength(card) ==
    8 + (IF card.title THEN 10 ELSE 0) + (IF card.text THEN 28 ELSE 0)
      + (IF card.buttonText THEN 15 ELSE 0) + (IF card.icon THEN 9 ELSE 0)

RECURSIVE SumOfLengths(_)
SumOfLengths(cards) ==
    IF cards = <<>> THEN 0 ELSE CardUseLength(Head(cards)) + SumOfLengths(Tail(cards))

\* A text of such uses.  The scans of parseCodeSignals find 'card' once per
\* use and nothing else: no heading element, no <button>, no <a href>, no
\* data-name attribute.
ComponentCardsMarkup(cards) ==
    Markup(SumOfLengths(cards), CardMatches(Len(cards)), <<>>, 0, <<>>, <<>>, <<>>,
           0, 0, 0, 0, {}, parseCardComponents(cards))

\* <Card title="A" /><Card title="B" /><Card title="C" />, and two uses that
\* have a title and a buttonText
ComponentCardLists ==
    { [i \in 1..3 |-> CardUse(TRUE, FALSE, FALSE, FALSE)],
      [i \in 1..2 |-> CardUse(TRUE, FALSE, TRUE, FALSE)] }

ComponentMarkups == { ComponentCardsMarkup(cards) : cards \in ComponentCardLists }

\* n button elements <button>b1</button>, <button>b2</button>, ..
ButtonList(n) == [i \in 1..n |-> <<"b", Digits[i + 1]>>]

\* four button elements, and the same four followed by the containers
\* <div data-name="Button">B1</div> and <div data-name="Button">B5</div>
FourButtons ==
    Markup(4 * 19, CardMatches(0), <<>>, 0, ButtonList(4), <<>>, <<>>, 0, 0, 0, 0, {}, NoStructure)

SixButtons ==
    Markup(4 * 19 + 2 * 32, CardMatches(0), <<>>, 0, ButtonList(4), <<>>,
           << <<"B", "1">>, <<"B", "5">> >>, 0, 0, 0, 0, {}, NoStructure)

\* long texts without class or style attributes, unnamed wrappers or image
\* containers: the simplifier changes their whitespace only
PlainLongMarkups == {HeadingAndParagraph, SixButtons} \cup CardsMarkups

\* the div elements of a plain text: its named containers
ClosingDivs(code) ==
    code.itemLike + code.smallHeadings + Len(code.divButtons) + code.genericContainers

\* normalizeWhitespace on a text without redundant whitespace: a newline is
\* added after every </div>
normalizeWhitespace(code) == [code EXCEPT !.length = @ + ClosingDivs(code)]

\* item-like containers are named containers: data-name="card" matches 'card'
Coherent(code) ==
    code.itemLike <= (IF "card" \in DOMAIN code.containerMatches
                      THEN code.containerMatches["card"] ELSE 0)

\* the structure is extracted from repeating markup only
Relevant(code) == MultiItemLikely(code) \/ code.structure = NoStructure

Markups ==
    {EmptyMarkup, ShortMarkup, FourButtons} \cup BoundaryMarkups \cup HeuristicMarkups
    \cup ComponentMarkups
    \cup {m \in MediumMarkups : Coherent(m) /\ Relevant(m)}

Nodes ==
    { FigmaNode(n, <<>>, 0) : n \in {n_Design_Context_Root, n_Card_Carousel, n_Hero} }
    \cup { FigmaNode(n_Hero, <<TRUE>>, 0), FigmaNode(n_Hero, <<TRUE, FALSE, FALSE>>, 2) }

\* what the simplifier may return for a long text
SimplifiedMarkups ==
    { m \in Markups : /\ m.keywords = {}
                      /\ m.buttons = <<>>
                      /\ m.genericContainers = 0
                      /\ m.itemLike = 0
                      /\ Len(m.headingTexts) <= 1 }

\* the results the simplifier may give for a text
Simplifications(code) ==
    IF code.length <= SimplifyAbove THEN {code}
    ELSE IF code \in PlainLongMarkups THEN {normalizeWhitespace(code)}
    ELSE SimplifiedMarkups

\* analyses a caller may hand to the scorer
FieldLists ==
    { <<>>,
      <<BlockField(f_heading, "text")>>,
      <<BlockField(f_heading, "text"), BlockField(f_icon, "reference"),
        BlockField(f_iconAlt, "text")>> }

CtaLists == { [i \in 1..n |-> Cta(<<"b", Digits[i + 1]>>, "button")] : n \in 0..MaxCount }

CallerSignals ==
    { None } \cup
    { Some(SignalBag(CardMatches(n), <<>>, 0, 0, m, c)) :
        n \in 0..MaxCount, m \in BOOLEAN, c \in CtaLists }

CallerAnalyses ==
    { BlockAnalysis(bt, n_hero, cf, itf, "cards", sig) :
        bt \in {"single", "multi-item"}, cf \in FieldLists,
        itf \in {None} \cup { Some(l) : l \in FieldLists }, sig \in CallerSignals }

\* queries a caller may hand to the matcher
CharacteristicLists ==
    { <<s_single>>,
      <<s_multi_item>>,
      <<s_multi_item, s_carousel>>,
      <<s_single, s_navigation, s_carousel>>,
      <<s_multi_item, s_carousel, s_slider, s_navigation, s_cards, s_grid, s_multi_item>> }

Queries ==
    { [blockName |-> n, characteristics |-> c] :
        n \in {n_card_carousel, n_hero}, c \in CharacteristicLists }

NoQuery == [blockName |-> <<>>, characteristics |-> <<>>]

NoFileSystem == [status |-> "missing", entries |-> <<>>]

\* the blocks directories of the pipeline runs
PipelineEntries ==
    { Entry(n_card_carousel, "unparseable", EmptyDoc),
      Entry(n_card_carousel, "ok", DocItems),
      Entry(s_slider, "ok", DocItems),
      Entry(s_slider, "ok", DocBadModels) }

PipelineFileSystems == FileSystemsOver(PipelineEntries)

NoAnalysis == BlockAnalysis("single", <<>>, <<>>, None, "cards", None)

-----------------------------------------------------------------------------
(* The pipeline: analyze, then enhanceAnalysis *)

Analyze(node, code, simplified) ==
    /\ pc = "start"
    /\ rawCode' = code
    /\ analysis' = analyze(node, code, simplified)
    /\ ctaButtons' = analyzeInteractions(Get(analysis'.codeSignals))
    /\ pc' = "analyzed"
    /\ UNCHANGED <<caller, confidence, blocksDir, fs, query, blockDirs, idx, patterns,
                   similarPatterns, warned, raisedAt, thrown>>
    /\ UNCHANGED <<html, runs, calls, arrays, existingBlocksCache>>
    /\ UNCHANGED <<strA, strB, distance, nameSimilarity>>

Init ==
    /\ pc = "start"
    /\ caller = "enhance"
    /\ rawCode = EmptyMarkup
    /\ analysis = NoAnalysis
    /\ confidence = NoConfidence
    /\ blocksDir = None
    /\ fs = NoFileSystem
    /\ query = NoQuery
    /\ blockDirs = <<>>
    /\ idx = 1
    /\ patterns = <<>>
    /\ similarPatterns = <<>>
    /\ warned = FALSE
    /\ raisedAt = "none"
    /\ thrown = FALSE
    /\ html = <<>>
    /\ runs = 0
    /\ ctaButtons = <<>>
    /\ calls = <<>>
    /\ arrays = <<>>
    /\ existingBlocksCache = <<>>
    /\ strA = <<>>
    /\ strB = <<>>
    /\ distance = 0
    /\ nameSimilarity = NoSimilarity

Next ==
    \/ \E node \in Nodes, code \in Markups \cup LongMarkups \cup PlainLongMarkups :
          \E simplified \in Simplifications(code) :
              Analyze(node, code, simplified)
    \/ EnhanceBegin(None, NoFileSystem)
    \/ \E dirState \in PipelineFileSystems : EnhanceBegin(Some("blocks"), dirState)
    \/ Matcher
    \/ EnhanceFinish

Spec == Init /\ [][Next]_vars

-----------------------------------------------------------------------------
(* The scorer called on its own *)

ScoreCall ==
    /\ pc = "score"
    /\ confidence' = calculateConfidenceScore(analysis)
    /\ pc' = "scored"
    /\ UNCHANGED <<caller, rawCode, analysis, blocksDir, fs, query, blockDirs, idx,
                   patterns, similarPatterns, warned, raisedAt, thrown>>
    /\ UNCHANGED <<html, runs, ctaButtons, calls, arrays, existingBlocksCache>>
    /\ UNCHANGED <<strA, strB, distance, nameSimilarity>>

InitScore ==
    /\ pc = "score"
    /\ caller = "direct"
    /\ rawCode = EmptyMarkup
    /\ analysis \in CallerAnalyses
    /\ confidence = NoConfidence
    /\ blocksDir = None
    /\ fs = NoFileSystem
    /\ query = NoQuery
    /\ blockDirs = <<>>
    /\ idx = 1
    /\ patterns = <<>>
    /\ similarPatterns = <<>>
    /\ warned = FALSE
    /\ raisedAt = "none"
    /\ thrown = FALSE
    /\ html = <<>>
    /\ runs = 0
    /\ ctaButtons = <<>>
    /\ calls = <<>>
    /\ arrays = <<>>
    /\ existingBlocksCache = <<>>
    /\ strA = <<>>
    /\ strB = <<>>
    /\ distance = 0
    /\ nameSimilarity = NoSimilarity

NextScore == ScoreCall

SpecScore == InitScore /\ [][NextScore]_vars

-----------------------------------------------------------------------------
(* The matcher called on its own *)

InitMatch ==
    /\ pc = "pathExists"
    /\ caller = "direct"
    /\ rawCode = EmptyMarkup
    /\ analysis = NoAnalysis
    /\ confidence = NoConfidence
    /\ blocksDir = Some("blocks")
    /\ fs \in FileSystems
    /\ query \in Queries
    /\ blockDirs = <<>>
    /\ idx = 1
    /\ patterns = <<>>
    /\ similarPatterns = <<>>
    /\ warned = FALSE
    /\ raisedAt = "none"
    /\ thrown = FALSE
    /\ html = <<>>
    /\ runs = 0
    /\ ctaButtons = <<>>
    /\ calls = <<>>
    /\ arrays = <<>>
    /\ existingBlocksCache = <<>>
    /\ strA = <<>>
    /\ strB = <<>>
    /\ distance = 0
    /\ nameSimilarity = NoSimilarity

NextMatch == Matcher

SpecMatch == InitMatch /\ [][NextMatch]_vars

-----------------------------------------------------------------------------
(* The simplifier: HTMLSimplifier.simplify, on a text given as tokens *)

\* The tokens of a text:
\*   "open"  - <div>, a div without a data-name attribute
\*   "named" - <div data-name="X">, X other than Icon, Image and Vector
\*   "close" - </div>
\*   "text"  - a word: no white space, no angle bracket, no brace
\*   "sp"    - one space
\*   "nl"    - one newline
\* Such a text has no return statement, no class or style attribute and no
\* image container: extractJSX takes its fallback, and convertReactToHTML,
\* removeClassAttributes, removeInlineStyles and simplifyImages leave it as it is.
Tokens == {"open", "named", "close", "text", "sp", "nl"}

\* \s
IsWhitespace(t) == t \in {"sp", "nl"}

IsTag(t) == t \in {"open", "named", "close"}

\* for (let i = 0; i < 5; i++): wrappers around data-name divs
WrapperPasses == 5

\* for (let i = 0; i < 3; i++): wrappers between semantic elements
EmptyWrapperPasses == 3

\* the first position from i on that holds no white space (Len + 1 if none)
RECURSIVE SkipWhitespace(_, _)
SkipWhitespace(h, i) ==
    IF i > Len(h) THEN i
    ELSE IF IsWhitespace(h[i]) THEN SkipWhitespace(h, i + 1)
    ELSE i

\* code.match(/<div[\s\S]*<\/div>/): from the first <div to the last </div>
extractJSX(h) ==
    LET opens  == {i \in 1..Len(h) : h[i] \in {"open", "named"}}
        first  == CHOOSE i \in opens : \A k \in opens : i <= k
        closes == {i \in 1..Len(h) : h[i] = "close" /\ opens # {} /\ i > first}
        last   == CHOOSE i \in closes : \A k \in closes : i >= k
    IN  IF opens = {} \/ closes = {} THEN h ELSE SubSeq(h, first, last)

\* [\s\S]*?<\/div> followed by \s*<\/div>: the first </div> after position j
\* that is followed, white space apart, by another </div> (0 if there is none)
LazyEnd(h, j) ==
    LET ends == {k \in (j + 1)..Len(h) :
                    /\ h[k] = "close"
                    /\ SkipWhitespace(h, k + 1) <= Len(h)
                    /\ h[SkipWhitespace(h, k + 1)] = "close"}
    IN  IF ends = {} THEN 0 ELSE CHOOSE k \in ends : \A e \in ends : k <= e

\* One html.replace(/<div(?![^>]*data-name)([^>]*)>\s*(<div[^>]*data-name=
\* [^>]*>[\s\S]*?<\/div>)\s*<\/div>/g, '$2'), scanning from position i: the
\* matches are taken from left to right and do not overlap.
RECURSIVE ReplaceWrappers(_, _)
ReplaceWrappers(h, i) ==
    IF i > Len(h) THEN <<>>
    ELSE LET j == SkipWhitespace(h, i + 1)
             k == IF h[i] = "open" /\ j <= Len(h) /\ h[j] = "named"
                  THEN LazyEnd(h, j) ELSE 0
         IN  IF k = 0
             THEN <<h[i]>> \o ReplaceWrappers(h, i + 1)
             ELSE SubSeq(h, j, k) \o ReplaceWrappers(h, SkipWhitespace(h, k + 1) + 1)

RECURSIVE ReplaceWrappersTimes(_, _)
ReplaceWrappersTimes(h, n) ==
    IF n = 0 THEN h ELSE ReplaceWrappersTimes(ReplaceWrappers(h, 1), n - 1)

\* Both loops: on these tokens the second pattern, <(?:p|img|div\s+data-name),
\* matches what the first one matches.
collapseLayoutWrappers(h) ==
    ReplaceWrappersTimes(ReplaceWrappersTimes(h, WrapperPasses), EmptyWrapperPasses)

\* html.replace(/\s{2,}/g, ' ')
RECURSIVE SqueezeWhitespace(_, _)
SqueezeWhitespace(h, i) ==
    IF i > Len(h) THEN <<>>
    ELSE IF IsWhitespace(h[i])
    THEN LET e == SkipWhitespace(h, i)
         IN  (IF e - i >= 2 THEN <<"sp">> ELSE <<h[i]>>) \o SqueezeWhitespace(h, e)
    ELSE <<h[i]>> \o SqueezeWhitespace(h, i + 1)

\* the last position up to i that holds no white space (0 if none)
RECURSIVE SkipWhitespaceBack(_, _)
SkipWhitespaceBack(h, i) ==
    IF i < 1 THEN 0
    ELSE IF IsWhitespace(h[i]) THEN SkipWhitespaceBack(h, i - 1)
    ELSE i

\* html.replace(/>\s+</g, '><'): white space between two tags goes
BetweenTags(h, i) ==
    LET before == SkipWhitespaceBack(h, i)
        after  == SkipWhitespace(h, i)
    IN  /\ IsWhitespace(h[i])
        /\ before >= 1 /\ IsTag(h[before])
        /\ after <= Len(h) /\ IsTag(h[after])

RECURSIVE RemoveBetweenTags(_, _)
RemoveBetweenTags(h, i) ==
    IF i > Len(h) THEN <<>>
    ELSE (IF BetweenTags(h, i) THEN <<>> ELSE <<h[i]>>) \o RemoveBetweenTags(h, i + 1)

\* html.trim()
Trim(h) ==
    LET first == SkipWhitespace(h, 1)
        last  == SkipWhitespaceBack(h, Len(h))
    IN  IF first > last THEN <<>> ELSE SubSeq(h, first, last)

\* html.replace(/<\/div>/g, '</div>\n')
RECURSIVE AddNewlines(_)
AddNewlines(h) ==
    IF h = <<>> THEN <<>>
    ELSE (IF Head(h) = "close" THEN <<"close", "nl">> ELSE <<Head(h)>>) \o AddNewlines(Tail(h))

\* the first position from i on that holds no newline (Len + 1 if none)
RECURSIVE SkipNewlines(_, _)
SkipNewlines(h, i) ==
    IF i > Len(h) THEN i
    ELSE IF h[i] = "nl" THEN SkipNewlines(h, i + 1)
    ELSE i

\* html.replace(/\n{3,}/g, '\n\n')
RECURSIVE CapNewlines(_, _)
CapNewlines(h, i) ==
    IF i > Len(h) THEN <<>>
    ELSE IF h[i] = "nl"
    THEN LET e == SkipNewlines(h, i)
         IN  (IF e - i >= 3 THEN <<"nl", "nl">> ELSE SubSeq(h, i, e - 1)) \o CapNewlines(h, e)
    ELSE <<h[i]>> \o CapNewlines(h, i + 1)

normalizeWhitespaceHtml(h) ==
    CapNewlines(AddNewlines(Trim(RemoveBetweenTags(SqueezeWhitespace(h, 1), 1))), 1)

simplify(reactCode) ==
    normalizeWhitespaceHtml(collapseLayoutWrappers(extractJSX(reactCode)))

\* n unnamed wrappers around <div data-name="X">text</div>
NestedWrappers(n) ==
    [i \in 1..n |-> "open"] \o <<"named", "text", "close">> \o [i \in 1..n |-> "close"]

\* Sequences of at most n tokens.
RECURSIVE TokenLists(_)
TokenLists(n) ==
    IF n = 0 THEN {<<>>}
    ELSE LET shorter == TokenLists(n - 1)
         IN  shorter \cup { Append(l, t) : l \in {x \in shorter : Len(x) = n - 1}, t \in Tokens }

\* the texts handed to the simplifier
Documents == TokenLists(MaxTokens) \cup { NestedWrappers(n) : n \in 0..MaxDepth }

\* html = simplifier.simplify(html)
Simplify ==
    /\ pc = "simplify"
    /\ runs < MaxRuns
    /\ html' = simplify(html)
    /\ runs' = runs + 1
    /\ UNCHANGED <<pc, caller, rawCode, analysis, confidence, blocksDir, fs, query,
                   blockDirs, idx, patterns, similarPatterns, warned, raisedAt, thrown,
                   ctaButtons, calls, arrays, existingBlocksCache>>
    /\ UNCHANGED <<strA, strB, distance, nameSimilarity>>

InitSimplify ==
    /\ pc = "simplify"
    /\ caller = "direct"
    /\ rawCode = EmptyMarkup
    /\ analysis = NoAnalysis
    /\ confidence = NoConfidence
    /\ blocksDir = None
    /\ fs = NoFileSystem
    /\ query = NoQuery
    /\ blockDirs = <<>>
    /\ idx = 1
    /\ patterns = <<>>
    /\ similarPatterns = <<>>
    /\ warned = FALSE
    /\ raisedAt = "none"
    /\ thrown = FALSE
    /\ html \in Documents
    /\ runs = 0
    /\ ctaButtons = <<>>
    /\ calls = <<>>
    /\ arrays = <<>>
    /\ existingBlocksCache = <<>>
    /\ strA = <<>>
    /\ strB = <<>>
    /\ distance = 0
    /\ nameSimilarity = NoSimilarity

NextSimplify == Simplify

SpecSimplify == InitSimplify /\ [][NextSimplify]_vars

-----------------------------------------------------------------------------
(* Two calls of the pipeline in progress on the same analyzer instances *)

\* The calls, numbered.  Node runs one call until it awaits; at an await
\* (fs.pathExists, fs.readdir, fs.readJSON) another call may run on.
Calls == 1..2

\* A call before its first statement: its arguments and its locals
NewCall(node, code, simplified, dir) ==
    [pc |-> "start", node |-> node, rawCode |-> code, simplified |-> simplified,
     blocksDir |-> dir, analysis |-> NoAnalysis, ctaButtons |-> <<>>,
     confidence |-> NoConfidence, query |-> NoQuery, blockDirs |-> <<>>, idx |-> 1,
     similarPatterns |-> <<>>, warned |-> FALSE, raisedAt |-> "none"]

\* variant: `patterns` is a field of the instance, one array for all calls
PatternsOwner_Instance(c) == 1

\* const patterns: SimilarBlockPattern[] = []; a local of
\* findSimilarBlockPatterns: every call allocates an array of its own
PatternsOwner(c) == c

\* analyzer.analyze(node, code): synchronous
ResumeStart(call) ==
    LET a == analyze(call.node, call.rawCode, call.simplified)
    IN  [call EXCEPT !.analysis = a,
                     !.ctaButtons = analyzeInteractions(Get(a.codeSignals)),
                     !.pc = "analyzed"]

\* enhanceAnalysis up to the first await of findSimilarBlockPatterns
ResumeAnalyzed(call) ==
    LET c == calculateConfidenceScore(call.analysis)
    IN  IF ConsultsMatcher(c, call.blocksDir)
        THEN [call EXCEPT !.confidence = c,
                          !.query = [blockName |-> call.analysis.blockName,
                                     characteristics |->
                                        extractCharacteristics(call.analysis, call.rawCode)],
                          !.pc = "pathExists"]
        ELSE [call EXCEPT !.confidence = c, !.pc = "suggest"]

\* after await fs.pathExists(blocksDir)
ResumePathExists(call, dirState) ==
    IF dirState.status = "missing"
    THEN [call EXCEPT !.similarPatterns = <<>>, !.pc = "suggest"]
    ELSE [call EXCEPT !.pc = "readdir"]

\* after await fs.readdir(blocksDir)
ResumeReaddir(call, dirState) ==
    IF dirState.status = "unlistable"
    THEN [call EXCEPT !.raisedAt = "readdir", !.pc = "raise"]
    ELSE [call EXCEPT !.blockDirs = [i \in 1..Len(dirState.entries) |->
                                        dirState.entries[i].dir],
                      !.idx = 1,
                      !.pc = "loop"]

\* the similarity of the entry the loop of a call is at
EntrySimilarity(call, dirState) ==
    calculateSimilarity(call.query.blockName, call.blockDirs[call.idx],
                        call.query.characteristics, dirState.entries[call.idx].model)

\* the entry the loop is at is pushed
EntryPushed(call, dirState) ==
    /\ call.idx <= Len(call.blockDirs)
    /\ dirState.entries[call.idx].file \notin {"missing", "unparseable", "null"}
    /\ Survives(EntrySimilarity(call, dirState))
    /\ dirState.entries[call.idx].model.modelsKind # "notIterable"

\* one iteration of for (const dir of blockDirs), or the end of the loop
ResumeLoop(call, dirState) ==
    IF call.idx > Len(call.blockDirs) THEN [call EXCEPT !.pc = "sort"]
    ELSE LET entry == dirState.entries[call.idx]
         IN  IF entry.file = "missing" THEN [call EXCEPT !.idx = @ + 1]
             ELSE IF entry.file = "unparseable" \/ entry.file = "null"
             THEN [call EXCEPT !.raisedAt = "loop", !.pc = "raise"]
             ELSE IF ~Survives(EntrySimilarity(call, dirState))
             THEN [call EXCEPT !.idx = @ + 1]
             ELSE IF entry.model.modelsKind = "notIterable"
             THEN [call EXCEPT !.raisedAt = "loop", !.pc = "raise"]
             ELSE [call EXCEPT !.idx = @ + 1]

\* the exception of a call unwinds
ResumeRaise(call) ==
    IF InTry(call.raisedAt)
    THEN [call EXCEPT !.warned = TRUE, !.raisedAt = "none", !.pc = "sort"]
    ELSE [call EXCEPT !.raisedAt = "none", !.pc = "failed"]

\* return patterns.sort(...)
ResumeSort(call, array) ==
    [call EXCEPT !.similarPatterns = SortBySimilarity(array), !.pc = "suggest"]

\* enhanceAnalysis after the matcher
ResumeSuggest(call) ==
    IF call.confidence.fieldExtraction < 50 /\ Len(call.similarPatterns) > 0
    THEN LET bestMatch == call.similarPatterns[1]
         IN  [call EXCEPT
                !.analysis =
                    IF @.blockType = "multi-item" /\ ~IsSome(@.itemFields)
                    THEN [@ EXCEPT !.itemFields =
                             Some(SelectSeq(bestMatch.suggestedFields, KeepSuggestedField))]
                    ELSE @,
                !.confidence = [@ EXCEPT !.suggestions =
                    Append(@, MsgBlock("Consider using field structure from similar block",
                                       bestMatch.blockName, bestMatch.similarity))],
                !.pc = "done"]
    ELSE [call EXCEPT !.pc = "done"]

\* A call runs from where it stands to its next await or to its return
Resume(call, array, dirState) ==
    CASE call.pc = "start"      -> ResumeStart(call)
      [] call.pc = "analyzed"   -> ResumeAnalyzed(call)
      [] call.pc = "pathExists" -> ResumePathExists(call, dirState)
      [] call.pc = "readdir"    -> ResumeReaddir(call, dirState)
      [] call.pc = "loop"       -> ResumeLoop(call, dirState)
      [] call.pc = "raise"      -> ResumeRaise(call)
      [] call.pc = "sort"       -> ResumeSort(call, array)
      [] call.pc = "suggest"    -> ResumeSuggest(call)
      [] OTHER                  -> call

\* The `patterns` array a call works on, after that run: allocated empty on
\* entry to findSimilarBlockPatterns, pushed to by the loop
ResumeArray(call, array, dirState) ==
    IF call.pc = "analyzed" THEN <<>>
    ELSE IF call.pc = "loop" /\ EntryPushed(call, dirState)
    THEN Append(array,
             SimilarBlockPattern(call.blockDirs[call.idx], EntrySimilarity(call, dirState),
                 findSharedCharacteristics(call.query.characteristics,
                                           dirState.entries[call.idx].model),
                 extractFieldsFromModel(dirState.entries[call.idx].model)))
    ELSE array

Returned(call) == call.pc \in {"done", "failed"}

\* the call with nothing else in progress, run to its return
RECURSIVE RunAlone(_, _, _)
RunAlone(call, array, dirState) ==
    IF Returned(call) THEN call
    ELSE RunAlone(Resume(call, array, dirState), ResumeArray(call, array, dirState),
                  dirState)

\* what a call was given
ArgumentsOf(call) == <<call.node, call.rawCode, call.simplified, call.blocksDir>>

\* what the caller of analyze and enhanceAnalysis receives
ResultOf(call) ==
    [returned |-> call.pc, analysis |-> call.analysis, ctaButtons |-> call.ctaButtons,
     confidence |-> call.confidence, similarPatterns |-> call.similarPatterns]

\* Call c runs on.  No statement of analyze or enhanceAnalysis reads or
\* writes existingBlocksCache, and none writes to the blocks directory.
CallStep(c) ==
    /\ pc = "calls"
    /\ ~Returned(calls[c])
    /\ calls' = [calls EXCEPT ![c] = Resume(@, arrays[PatternsOwner(c)], fs)]
    /\ arrays' = [arrays EXCEPT ![PatternsOwner(c)] = ResumeArray(calls[c], @, fs)]
    /\ UNCHANGED <<pc, caller, rawCode, analysis, confidence, blocksDir, fs, query,
                   blockDirs, idx, patterns, similarPatterns, warned, raisedAt, thrown,
                   html, runs, ctaButtons, existingBlocksCache>>
    /\ UNCHANGED <<strA, strB, distance, nameSimilarity>>

\* the texts of the concurrent calls: short ones, and long ones the
\* simplifier changes by whitespace only
ConcurrentMarkups == BoundaryMarkups \cup {HeadingAndParagraph, CardsMarkup(3, "element", "link")}

ConcurrentNodes == {FigmaNode(n_Card_Carousel, <<>>, 0), FigmaNode(n_Hero, <<TRUE, FALSE, FALSE>>, 2)}

\* the simplifier's result for such a text
Simplified(code) == CHOOSE s \in Simplifications(code) : TRUE

ConcurrentCalls ==
    { NewCall(node, code, Simplified(code), Some("blocks")) :
        node \in ConcurrentNodes, code \in ConcurrentMarkups }
    \cup { NewCall(FigmaNode(n_Card_Carousel, <<>>, 0), HeadingAndParagraph,
                   Simplified(HeadingAndParagraph), None) }

InitConcurrent ==
    /\ pc = "calls"
    /\ caller = "direct"
    /\ rawCode = EmptyMarkup
    /\ analysis = NoAnalysis
    /\ confidence = NoConfidence
    /\ blocksDir = None
    /\ fs \in PipelineFileSystems
    /\ query = NoQuery
    /\ blockDirs = <<>>
    /\ idx = 1
    /\ patterns = <<>>
    /\ similarPatterns = <<>>
    /\ warned = FALSE
    /\ raisedAt = "none"
    /\ thrown = FALSE
    /\ html = <<>>
    /\ runs = 0
    /\ ctaButtons = <<>>
    /\ calls \in [Calls -> ConcurrentCalls]
    /\ arrays = [c \in Calls |-> <<>>]
    /\ existingBlocksCache = <<>>
    /\ strA = <<>>
    /\ strB = <<>>
    /\ distance = 0
    /\ nameSimilarity = NoSimilarity

NextConcurrent == \E c \in Calls : CallStep(c)

SpecConcurrent == InitConcurrent /\ [][NextConcurrent]_vars

-----------------------------------------------------------------------------
(* stringSimilarity called on two strings *)

\* The characters of the strings: two of the Basic Multilingual Plane and
\* one outside it.  A JavaScript string holds UTF-16 code units: length counts
\* them and charAt returns one, and a character outside the Basic
\* Multilingual Plane is a pair of them.
Characters == {"a", "b", "astral"}

\* the code units of a character
CodeUnitsOf(ch) == IF ch = "astral" THEN <<"high", "low">> ELSE <<ch>>

\* the JavaScript string of a sequence of characters
RECURSIVE CodeUnits(_)
CodeUnits(chars) ==
    IF chars = <<>> THEN <<>> ELSE CodeUnitsOf(Head(chars)) \o CodeUnits(Tail(chars))

\* the characters of a JavaScript string, as Array.from(str) gives them
RECURSIVE CodePoints(_)
CodePoints(str) ==
    IF str = <<>> THEN <<>>
    ELSE IF Len(str) >= 2 /\ str[1] = "high" /\ str[2] = "low"
    THEN <<"astral">> \o CodePoints(SubSeq(str, 3, Len(str)))
    ELSE <<Head(str)>> \o CodePoints(Tail(str))

CharacterStrings == UNION { [1..n -> Characters] : n \in 0..MaxChars }

\* this.stringSimilarity(strA, strB), with the distance of the two strings
\* in the order given
Compare ==
    /\ pc = "compare"
    /\ distance' = levenshteinDistance(strA, strB)
    /\ nameSimilarity' = stringSimilarity(strA, strB)
    /\ pc' = "compared"
    /\ UNCHANGED <<caller, rawCode, analysis, confidence, blocksDir, fs, query, blockDirs,
                   idx, patterns, similarPatterns, warned, raisedAt, thrown, html, runs,
                   ctaButtons, calls, arrays, existingBlocksCache, strA, strB>>

InitCompare ==
    /\ pc = "compare"
    /\ caller = "direct"
    /\ rawCode = EmptyMarkup
    /\ analysis = NoAnalysis
    /\ confidence = NoConfidence
    /\ blocksDir = None
    /\ fs = NoFileSystem
    /\ query = NoQuery
    /\ blockDirs = <<>>
    /\ idx = 1
    /\ patterns = <<>>
    /\ similarPatterns = <<>>
    /\ warned = FALSE
    /\ raisedAt = "none"
    /\ thrown = FALSE
    /\ html = <<>>
    /\ runs = 0
    /\ ctaButtons = <<>>
    /\ calls = <<>>
    /\ arrays = <<>>
    /\ existingBlocksCache = <<>>
    /\ \E a, b \in CharacterStrings : strA = CodeUnits(a) /\ strB = CodeUnits(b)
    /\ distance = 0
    /\ nameSimilarity = NoSimilarity

NextCompare == Compare

SpecCompare == InitCompare /\ [][NextCompare]_vars

-----------------------------------------------------------------------------
(* Properties of the simplifier *)

\* C22: simplify is idempotent: simplifying a simplified text changes nothing.
C22_Idempotent == runs >= 1 => simplify(html) = html

-----------------------------------------------------------------------------
(* Properties of the confidence scorer *)

C1_Sum == confidence.blockType + confidence.fieldExtraction

\* C1: blockType, fieldExtraction and overall are integers in [0,100], and
\* overall is the average of the two clamped sub-scores rounded to the
\* nearest integer (a half rounds up).
C1_ScoresInRange ==
    pc = "scored" =>
        /\ confidence.blockType \in 0..100
        /\ confidence.fieldExtraction \in 0..100
        /\ confidence.overall \in 0..100
        /\ 2 * confidence.overall - C1_Sum \in {0, 1}

\* C1 witness: a score was computed whose field-extraction sum exceeds 100
\* before it is clamped.
C1_Witness ==
    /\ pc = "scored"
    /\ HasContainerFields(analysis) /\ HasItemFields(analysis) /\ HasCTAs(analysis)
    /\ confidence.fieldExtraction = 100

C2_Clamp(x) == IF x < 0 THEN 0 ELSE IF x > 100 THEN 100 ELSE x

C2_Bag == Get(analysis.codeSignals)

\* C2: the blockType sub-score is clamp(50 + 30 if the bag has multiItemLikely
\* + 20 if the bag holds at least one repeated-container name) when the
\* analysis carries a signal bag, and 50 - 20 when it carries none.
C2_BlockTypeScore ==
    pc = "scored" =>
        confidence.blockType =
            IF IsSome(analysis.codeSignals)
            THEN C2_Clamp(50 + (IF C2_Bag.multiItemLikely THEN 30 ELSE 0)
                             + (IF DOMAIN C2_Bag.repeatedContainerNames # {} THEN 20 ELSE 0))
            ELSE 50 - 20

\* C2 witness: a bag with a container name matched once and no multi-item
\* indication was scored (only the +20 applies).
C2_Witness ==
    /\ pc = "scored"
    /\ IsSome(analysis.codeSignals)
    /\ ~C2_Bag.multiItemLikely
    /\ \E p \in DOMAIN C2_Bag.repeatedContainerNames : C2_Bag.repeatedContainerNames[p] = 1
    /\ confidence.blockType = 70

C3_NoContainer == Len(analysis.containerFields) = 0

C3_NoItems == ~IsSome(analysis.itemFields) \/ Len(Get(analysis.itemFields)) = 0

C3_CtaDetected ==
    IsSome(analysis.codeSignals) /\ Len(Get(analysis.codeSignals).semanticCtas) >= 1

C3_Expected ==
    C2_Clamp(50
        + (IF ~C3_NoContainer THEN 20
           ELSE IF analysis.blockType = "multi-item" THEN -30 ELSE 0)
        + (IF ~C3_NoItems THEN 30
           ELSE IF analysis.blockType = "multi-item" THEN -40 ELSE 0)
        + (IF C3_CtaDetected THEN 10 ELSE 0))

\* C3 as amended: the fieldExtraction sub-score is clamp(50 + (20 if
\* containerFields is non-empty, else -30 if multi-item) + (30 if itemFields
\* is non-empty, else -40 if multi-item) + (10 if a semantic CTA was
\* detected)); for a single block with no fields it is 50 without a detected
\* CTA and 60 with one.
C3_FieldExtractionScore ==
    pc = "scored" =>
        /\ confidence.fieldExtraction = C3_Expected
        /\ (analysis.blockType = "single" /\ C3_NoContainer /\ C3_NoItems) =>
               confidence.fieldExtraction = IF C3_CtaDetected THEN 60 ELSE 50

\* C3 as stated: the same sum, and a single block with no fields stays at 50.
C3_Original ==
    pc = "scored" =>
        /\ confidence.fieldExtraction = C3_Expected
        /\ (analysis.blockType = "single" /\ C3_NoContainer /\ C3_NoItems) =>
               confidence.fieldExtraction = 50

\* C3 witness: a single block with no fields and a detected CTA was scored.
C3_Witness ==
    /\ pc = "scored"
    /\ analysis.blockType = "single" /\ C3_NoContainer /\ C3_NoItems
    /\ C3_CtaDetected
    /\ confidence.fieldExtraction = 60

\* the adjustments that raise a score, in program order
C4_Positive ==
    << IsSome(analysis.codeSignals) /\ C2_Bag.multiItemLikely,
       IsSome(analysis.codeSignals) /\ DOMAIN C2_Bag.repeatedContainerNames # {},
       ~C3_NoContainer,
       ~C3_NoItems,
       C3_CtaDetected >>

\* the adjustments that lower a score, in program order
C4_Negative ==
    << ~IsSome(analysis.codeSignals),
       C3_NoContainer /\ analysis.blockType = "multi-item",
       C3_NoItems /\ analysis.blockType = "multi-item" >>

C4_PositiveTexts ==
    << "Multi-item indicators found in code structure",
       "Repeated container patterns detected",
       "Extracted container fields",
       "Extracted item fields",
       "Successfully detected CTA buttons from code" >>

C4_NegativeTexts ==
    << "Provide generated code for better analysis",
       "No container fields found - may need manual review",
       "No item fields found - block may need manual field definition" >>

C4_Count(flags) == Cardinality({i \in 1..Len(flags) : flags[i]})

\* the strings of `list` are those of the applied adjustments, one each, in order
C4_Trail(list, flags, texts) ==
    /\ Len(list) = C4_Count(flags)
    /\ \A k \in 1..Len(list) :
          \E i \in 1..Len(flags) :
              /\ flags[i]
              /\ list[k].text = texts[i]
              /\ C4_Count([m \in 1..(i - 1) |-> flags[m]]) = k - 1

\* C4: every applied adjustment appends exactly one string, a raise to
\* reasons and a deduction to suggestions, in the order of the adjustments,
\* so the strings returned are as many as the adjustments applied.
C4_AuditTrail ==
    pc = "scored" =>
        /\ C4_Trail(confidence.reasons, C4_Positive, C4_PositiveTexts)
        /\ C4_Trail(confidence.suggestions, C4_Negative, C4_NegativeTexts)
        /\ Len(confidence.reasons) + Len(confidence.suggestions)
               = C4_Count(C4_Positive) + C4_Count(C4_Negative)

\* C4 witness: a score with raises (among them the CTA bonus) and a deduction.
C4_Witness ==
    /\ pc = "scored"
    /\ C3_CtaDetected
    /\ Len(confidence.reasons) >= 2
    /\ Len(confidence.suggestions) >= 1

-----------------------------------------------------------------------------
(* Properties of the pipeline *)

\* enhanceAnalysis has computed the confidence score of the analysed markup
C5_Scored == pc \notin {"start", "analyzed"}

\* C5: for markup below the minimum length the analysis has
\* multiItemLikely = false, the blockType score is 20 below the baseline of
\* 50, and the suggestions hold at least one entry.
C5_ShortMarkup ==
    (C5_Scored /\ rawCode.length < MinCodeLength) =>
        /\ ~Get(analysis.codeSignals).multiItemLikely
        /\ confidence.blockType = 50 - 20
        /\ Len(confidence.suggestions) >= 1

\* the fields the claim lets through: not container-only, not a heading duplicate
C6_Borrowed == SelectSeq(similarPatterns[1].suggestedFields, KeepSuggestedField)

\* C6: when enhanceAnalysis has returned with fieldExtraction < 50 and a
\* surviving match, the item fields are the top match's suggested fields
\* (container-only and heading fields excluded) and the last suggestion names
\* the block they come from.
C6_FieldsBorrowed ==
    (pc = "done" /\ confidence.fieldExtraction < 50 /\ Len(similarPatterns) > 0) =>
        /\ analysis.itemFields = Some(C6_Borrowed)
        /\ Len(confidence.suggestions) > 0
        /\ confidence.suggestions[Len(confidence.suggestions)].block
               = similarPatterns[1].blockName

\* the container names of the bag at hand that were matched once
C21_MatchedOnce ==
    IF HasSignals(analysis)
    THEN { name \in DOMAIN Get(analysis.codeSignals).repeatedContainerNames :
             Get(analysis.codeSignals).repeatedContainerNames[name] = 1 }
    ELSE {}

\* the analysis at hand with a second occurrence of the name, and
\* multiItemLikely recomputed: the other three criteria are as before
C21_SecondOccurrence(name) ==
    LET bag == Get(analysis.codeSignals)
        repeated == [bag.repeatedContainerNames EXCEPT ![name] = 2]
    IN  [analysis EXCEPT !.codeSignals =
            Some([bag EXCEPT !.repeatedContainerNames = repeated,
                             !.multiItemLikely = @ \/ HasRepeatedContainers(repeated)])]

\* C21: when a repeated-container name goes from one occurrence to two and
\* multiItemLikely is recomputed, the blockType score of the second bag is
\* at least that of the first.
C21_Monotone ==
    pc = "scored" =>
        \A name \in C21_MatchedOnce :
            calculateConfidenceScore(C21_SecondOccurrence(name)).blockType
                >= confidence.blockType

\* C21 witness: a bag with a name matched once and no multi-item flag
\* scored 70, and the second occurrence lifts the score to 100
C21_Witness ==
    /\ pc = "scored"
    /\ confidence.blockType = 70
    /\ \E name \in C21_MatchedOnce :
          calculateConfidenceScore(C21_SecondOccurrence(name)).blockType = 100

-----------------------------------------------------------------------------
(* Properties of the matcher *)

\* C7: every pattern the matcher produces has a similarity in [0,100].
C7_SimilarityInRange ==
    /\ \A i \in 1..Len(patterns) : patterns[i].similarity \in 0..100
    /\ \A i \in 1..Len(similarPatterns) : similarPatterns[i].similarity \in 0..100

\* C8: no entry with a similarity of 40 or less is collected or returned.
C8_AboveThreshold ==
    /\ \A i \in 1..Len(patterns) : patterns[i].similarity > 40
    /\ \A i \in 1..Len(similarPatterns) : similarPatterns[i].similarity > 40

C8_Similarity(i) ==
    calculateSimilarity(query.blockName, fs.entries[i].dir, query.characteristics,
                        fs.entries[i].model)

\* C8 witness: the matcher returned a match from a directory that also holds
\* a readable entry scoring exactly 40.
C8_Witness ==
    /\ pc = "returned"
    /\ Len(similarPatterns) > 0
    /\ \E i \in 1..Len(fs.entries) :
          /\ fs.entries[i].file = "ok"
          /\ C8_Similarity(i) = 40
          /\ \A k \in 1..Len(similarPatterns) :
                similarPatterns[k].blockName # fs.entries[i].dir

\* entry i can be read and turned into a pattern
C9_Readable(i) ==
    /\ fs.entries[i].file = "ok"
    /\ fs.entries[i].model.modelsKind # "notIterable"

\* C9: once the matcher has returned from a listable directory, every
\* readable entry that scores above 40 is among the returned patterns,
\* wherever the unreadable entries stand in the listing.
C9_OnlyOffendingSkipped ==
    (pc = "returned" /\ fs.status = "ok") =>
        \A i \in 1..Len(fs.entries) :
            (C9_Readable(i) /\ C8_Similarity(i) > 40) =>
                \E k \in 1..Len(similarPatterns) :
                    similarPatterns[k].blockName = fs.entries[i].dir

\* the corpus holds product-carousel and plain-list, both with a readable
\* schema, and plain-list has no filters (no structural overlap)
C14_Corpus ==
    /\ fs.status = "ok"
    /\ Len(fs.entries) = 2
    /\ {fs.entries[i].dir : i \in 1..2} = {n_product_carousel, n_plain_list}
    /\ \A i \in 1..2 :
          /\ C9_Readable(i)
          /\ fs.entries[i].dir = n_plain_list => ~HasItems(fs.entries[i].model)

C14_Query == query.characteristics = <<s_multi_item, s_carousel>>

\* the schema of product-carousel has a non-empty filters array
C14_CarouselHasItems ==
    \A i \in 1..Len(fs.entries) :
        fs.entries[i].dir = n_product_carousel => HasItems(fs.entries[i].model)

\* product-carousel is returned first with a similarity above 40, and
\* plain-list is not returned
C14_Outcome ==
    /\ Len(similarPatterns) >= 1
    /\ similarPatterns[1].blockName = n_product_carousel
    /\ similarPatterns[1].similarity > 40
    /\ \A k \in 1..Len(similarPatterns) : similarPatterns[k].blockName # n_plain_list

C20_Position(dir) == CHOOSE i \in 1..Len(fs.entries) : fs.entries[i].dir = dir

\* C20: the matcher returns its patterns in non-increasing order of
\* similarity, and patterns of equal similarity in the order in which the
\* blocks directory listed them.
C20_SortedStable ==
    pc = "returned" =>
        \A i, j \in 1..Len(similarPatterns) :
            i < j =>
                /\ similarPatterns[i].similarity >= similarPatterns[j].similarity
                /\ similarPatterns[i].similarity = similarPatterns[j].similarity =>
                      C20_Position(similarPatterns[i].blockName)
                          < C20_Position(similarPatterns[j].blockName)

\* C20 witness: two patterns of equal similarity were returned
C20_Witness ==
    /\ pc = "returned"
    /\ Len(similarPatterns) = 2
    /\ similarPatterns[1].similarity = similarPatterns[2].similarity

-----------------------------------------------------------------------------
(* Properties of the analyzer *)

C11_ItemFields == Get(analysis.itemFields)

\* the pattern the fixed priority gives for the block name and the item fields
C11_Expected ==
    IF \/ Includes(analysis.blockName, s_carousel)
       \/ Includes(analysis.blockName, s_slider)
       \/ Includes(analysis.blockName, s_gallery)
    THEN "carousel"
    ELSE IF Includes(analysis.blockName, s_card) THEN "cards"
    ELSE IF \E i \in 1..Len(C11_ItemFields) : C11_ItemFields[i].component = "richtext"
    THEN "decorated"
    ELSE "cards"

\* C11: every multi-item analysis returned by analyze has the jsPattern of
\* the priority carousel (name contains carousel, slider or gallery) > cards
\* (name contains card) > decorated (an item field is richtext) > cards.
C11_JsPatternPriority ==
    (pc = "analyzed" /\ analysis.blockType = "multi-item") =>
        analysis.jsPattern = C11_Expected

\* the analysis of the stub node that the server hands to analyze
C12_StubNode == analysis.blockName = sanitizeBlockName(n_Design_Context_Root)

C12_HasHeadingField ==
    \E i \in 1..Len(analysis.containerFields) : analysis.containerFields[i].name = f_heading

\* a field named text or richText, or one of the richtext component
C12_HasTextField ==
    \E i \in 1..Len(analysis.containerFields) :
        \/ analysis.containerFields[i].name \in {f_text, f_richText}
        \/ analysis.containerFields[i].component = "richtext"

\* C12: for a heading and one 300-character paragraph with no repeated
\* containers the analysis is single, its containerFields include a heading
\* field and a text or richText field, and it has no item fields.
C12_HeadingAndParagraph ==
    (pc = "analyzed" /\ rawCode = HeadingAndParagraph /\ C12_StubNode) =>
        /\ analysis.blockType = "single"
        /\ C12_HasHeadingField
        /\ C12_HasTextField
        /\ Get(analysis.itemFields) = <<>>

C13_HasItemField(name) ==
    \E i \in 1..Len(Get(analysis.itemFields)) : Get(analysis.itemFields)[i].name = name

\* C13: for three identical containers named Card, each with a heading and
\* a button with a destination, the analysis is multi-item, its itemFields
\* include heading, cta and ctaText, and jsPattern is cards.
C13_ThreeCards ==
    (pc = "analyzed" /\ rawCode \in CardsMarkups /\ C12_StubNode) =>
        /\ analysis.blockType = "multi-item"
        /\ C13_HasItemField(f_heading)
        /\ C13_HasItemField(f_cta)
        /\ C13_HasItemField(f_ctaText)
        /\ analysis.jsPattern = "cards"

C15_Distinct(fields) ==
    \A i, j \in 1..Len(fields) : i # j => fields[i].name # fields[j].name

\* C15: in every analysis the pipeline holds, after analyze and after
\* enhanceAnalysis, the names of containerFields are pairwise distinct and
\* so are the names of itemFields.
C15_UniqueNames ==
    pc # "start" =>
        /\ C15_Distinct(analysis.containerFields)
        /\ IsSome(analysis.itemFields) => C15_Distinct(Get(analysis.itemFields))

\* C15 witness: an enhanced analysis with several text fields and two images
C15_Witness ==
    /\ pc = "done"
    /\ Len(analysis.containerFields) >= 7

C16_Paired(fields) ==
    \A i \in 1..Len(fields) :
        fields[i].component = "reference" =>
            \E j \in 1..Len(fields) : /\ fields[j].name = fields[i].name \o f_Alt
                                      /\ fields[j].component = "text"

C16_HasReference(fields) == \E i \in 1..Len(fields) : fields[i].component = "reference"

\* C16: in every analysis the pipeline holds, after analyze and after
\* enhanceAnalysis, each field of component reference named N has a field
\* named N + "Alt" of component text in the same scope.
C16_ReferenceAltPairing ==
    pc # "start" =>
        /\ C16_Paired(analysis.containerFields)
        /\ IsSome(analysis.itemFields) => C16_Paired(Get(analysis.itemFields))

\* C16 witness: an enhanced analysis with a reference field in each scope
C16_Witness ==
    /\ pc = "done"
    /\ C16_HasReference(analysis.containerFields)
    /\ IsSome(analysis.itemFields)
    /\ C16_HasReference(Get(analysis.itemFields))

C17_Bag == Get(analysis.codeSignals)

\* the texts that analyze may have scanned for the analysis at hand
C17_Scanned ==
    { p \in Simplifications(rawCode) : parseCodeSignals(p) = C17_Bag }

C17_Criteria(p) ==
    \/ \E name \in DOMAIN C17_Bag.repeatedContainerNames :
           C17_Bag.repeatedContainerNames[name] >= 2
    \/ Len(C17_Bag.distinctHeadings) >= 2
    \/ C17_Bag.itemLikeContainerCount >= 2
    \/ (p.genericContainers >= 2 /\ (p.smallHeadings >= 2 \/ p.bullets >= 4))

C17_WitnessBelow ==
    /\ pc = "analyzed"
    /\ rawCode.genericContainers = 2
    /\ rawCode.bullets = 3
    /\ ~C17_Bag.multiItemLikely

\* C18: the block type of an analysis is multi-item exactly when the
\* multiItemLikely flag of its signal bag is true and single otherwise,
\* whatever the other signals and the design node are.
C18_BlockTypeFromFlag ==
    pc # "start" =>
        /\ IsSome(analysis.codeSignals)
        /\ analysis.blockType =
               (IF Get(analysis.codeSignals).multiItemLikely THEN "multi-item" ELSE "single")

\* C18 witness: a single block although the bag holds a heading and a CTA
\* and the node has texts and images
C18_Witness ==
    /\ pc = "analyzed"
    /\ analysis.blockType = "single"
    /\ Len(Get(analysis.codeSignals).distinctHeadings) = 1
    /\ Len(Get(analysis.codeSignals).semanticCtas) >= 1
    /\ Len(analysis.containerFields) >= 3

(* Properties of enhanceAnalysis *)

\* enhanceAnalysis has computed the confidence score
C19_Enhancing == pc \notin {"start", "analyzed"}

\* the matcher is at work
C19_InMatcher == pc \in {"pathExists", "readdir", "loop", "sort", "raise"}

\* C19: enhanceAnalysis calls the matcher only for an overall score below
\* 70; for a score of 70 or more the blocks directory is never read and
\* similarPatterns is empty.
C19_MatcherBelow70 ==
    C19_Enhancing =>
        /\ C19_InMatcher => confidence.overall < 70
        /\ confidence.overall >= 70 =>
              /\ similarPatterns = <<>>
              /\ blockDirs = <<>>
              /\ ~warned

\* C19 witness: enhanceAnalysis returned for a score of exactly 70 with a
\* blocks directory that holds entries
C19_Witness ==
    /\ pc = "done"
    /\ confidence.overall = 70
    /\ IsSome(blocksDir)
    /\ fs.status = "ok"
    /\ Len(fs.entries) > 0
    /\ similarPatterns = <<>>

-----------------------------------------------------------------------------
(* Properties of analyzeInteractions *)

C23_BagCtas == Get(analysis.codeSignals).semanticCtas

-----------------------------------------------------------------------------
(* Properties of calls in progress together *)

\* both calls have returned
C24_BothReturned == \A c \in Calls : Returned(calls[c])

C25_AsCalled(call) == NewCall(call.node, call.rawCode, call.simplified, call.blocksDir)

\* C25: a call that ran interleaved with another call on the same instances
\* returns what it returns when nothing else is in progress, and the cache
\* field of the instance is never written.
C25_AsWhenAlone ==
    pc = "calls" =>
        /\ existingBlocksCache = <<>>
    /\ strA = <<>>
    /\ strB = <<>>
    /\ distance = 0
    /\ nameSimilarity = NoSimilarity
        /\ \A c \in Calls :
              Returned(calls[c]) =>
                  ResultOf(calls[c]) = ResultOf(RunAlone(C25_AsCalled(calls[c]), <<>>, fs))

\* C25 witness: two calls on different texts returned, both after the
\* matcher found a pattern for a query of its own, with different results
C25_Witness ==
    /\ pc = "calls"
    /\ C24_BothReturned
    /\ calls[1].rawCode # calls[2].rawCode
    /\ calls[1].query # calls[2].query
    /\ Len(calls[1].similarPatterns) > 0
    /\ Len(calls[2].similarPatterns) > 0
    /\ ResultOf(calls[1]) # ResultOf(calls[2])

-----------------------------------------------------------------------------
(* Properties of the item pass *)

C26_HasItemField(name) ==
    /\ IsSome(analysis.itemFields)
    /\ \E i \in 1..Len(Get(analysis.itemFields)) : Get(analysis.itemFields)[i].name = name

\* C26: for a text of Card component uses, an item field is derived only if
\* some use has the prop that holds this content: heading for a title,
\* description for a text, icon and iconAlt for an icon, cta and ctaText for
\* a buttonText.
C26_ItemFieldsExhibited ==
    \A cards \in ComponentCardLists :
        pc = "analyzed" /\ rawCode = ComponentCardsMarkup(cards) =>
            /\ C26_HasItemField(f_heading) => \E i \in 1..Len(cards) : cards[i].title
            /\ C26_HasItemField(f_description) => \E i \in 1..Len(cards) : cards[i].text
            /\ C26_HasItemField(f_icon) => \E i \in 1..Len(cards) : cards[i].icon
            /\ C26_HasItemField(f_iconAlt) => \E i \in 1..Len(cards) : cards[i].icon
            /\ C26_HasItemField(f_cta) => \E i \in 1..Len(cards) : cards[i].buttonText
            /\ C26_HasItemField(f_ctaText) => \E i \in 1..Len(cards) : cards[i].buttonText

-----------------------------------------------------------------------------
(* Properties of stringSimilarity and levenshteinDistance *)

\* the least number of insertions, deletions and substitutions of one
\* element that turn the sequence a into the sequence b
RECURSIVE C27_EditDistance(_, _)
C27_EditDistance(a, b) ==
    IF a = <<>> THEN Len(b)
    ELSE IF b = <<>> THEN Len(a)
    ELSE Min3(C27_EditDistance(Tail(a), Tail(b)) + (IF Head(a) = Head(b) THEN 0 ELSE 1),
              C27_EditDistance(Tail(a), b) + 1,
              C27_EditDistance(a, Tail(b)) + 1)

C27_Longer(a, b) == IF Len(a) > Len(b) THEN Len(a) ELSE Len(b)

\* C27 as stated, a character being a code point: the distance is the edit
\* distance of the two strings' characters and does not exceed the number of
\* characters of the longer string.
C27_EditDistanceOfCharacters ==
    pc = "compared" =>
        /\ distance = C27_EditDistance(CodePoints(strA), CodePoints(strB))
        /\ distance <= C27_Longer(CodePoints(strA), CodePoints(strB))

\* C27, amended: over UTF-16 code units, levenshteinDistance is the edit
\* distance, is symmetric, is 0 exactly for equal strings and does not
\* exceed the longer length; stringSimilarity lies between 0 and 1 and is 1
\* for two empty strings.
C27_EditDistanceOfCodeUnits ==
    pc = "compared" =>
        /\ distance = C27_EditDistance(strA, strB)
        /\ distance = levenshteinDistance(strB, strA)
        /\ distance = 0 <=> strA = strB
        /\ distance <= C27_Longer(strA, strB)
        /\ nameSimilarity.den > 0
        /\ 0 <= nameSimilarity.num
        /\ nameSimilarity.num <= nameSimilarity.den
        /\ strA = <<>> /\ strB = <<>> => nameSimilarity.num = nameSimilarity.den

\* C27 witness: two strings of different lengths, one with a character
\* outside the Basic Multilingual Plane, at distance 2 and similarity 1/3
C27_Witness ==
    /\ pc = "compared"
    /\ Len(strA) = 3
    /\ Len(strB) = 2
    /\ \E i \in 1..Len(strA) : strA[i] = "high"
    /\ distance = 2
    /\ nameSimilarity = [num |-> 1, den |-> 3]

-----------------------------------------------------------------------------
(* Properties of the field extraction score *)

\* itemFields is absent or empty
C28_NoItemFields ==
    ~IsSome(analysis.itemFields) \/ Len(Get(analysis.itemFields)) = 0

\* C28: the scorer returns fieldExtraction below 50 only for a multi-item
\* analysis whose itemFields are absent or empty; for a single block
\* fieldExtraction is at least 50.
C28_LowOnlyWithoutItemFields ==
    pc = "scored" =>
        /\ confidence.fieldExtraction < 50 =>
              analysis.blockType = "multi-item" /\ C28_NoItemFields
        /\ analysis.blockType = "single" => confidence.fieldExtraction >= 50

\* C28 witness: a multi-item analysis with container fields, a CTA and an
\* empty itemFields array scored 40
C28_Witness ==
    /\ pc = "scored"
    /\ analysis.blockType = "multi-item"
    /\ IsSome(analysis.itemFields)
    /\ Len(Get(analysis.itemFields)) = 0
    /\ Len(analysis.containerFields) > 0
    /\ confidence.fieldExtraction = 40

-----------------------------------------------------------------------------
(* Properties of the field-borrowing step *)

\* C29: once enhanceAnalysis has scored the analysis, a fieldExtraction
\* score below 50 comes with an overall score below 70, so that with a
\* blocks directory the matcher is consulted.
C29_LowFieldScoreConsults ==
    C19_Enhancing /\ IsSome(blocksDir) /\ confidence.fieldExtraction < 50 =>
        /\ confidence.overall < 70
        /\ ConsultsMatcher(confidence, blocksDir)

-----------------------------------------------------------------------------
(* Properties of the name similarity *)

\* the positions of the blocks directory that hold the entry named dir
C30_EntriesNamed(dir) == {k \in 1..Len(fs.entries) : fs.entries[k].dir = dir}

\* the entry matched one of the three structural signals
C30_StructuralMatch(k) ==
    StructuralMatches(fs.entries[k].dir, query.characteristics, fs.entries[k].model) >= 1

\* C30: every entry the matcher collects or returns matched at least one
\* of the three structural signals (carousel/slider, card/grid,
\* multi-item/repeating), whatever its name.
C30_StructuralSignalNeeded ==
    /\ \A i \in 1..Len(patterns) :
          \A k \in C30_EntriesNamed(patterns[i].blockName) : C30_StructuralMatch(k)
    /\ \A i \in 1..Len(similarPatterns) :
          \A k \in C30_EntriesNamed(similarPatterns[i].blockName) : C30_StructuralMatch(k)

\* C30 witness: the matcher returned an entry, and left out a readable
\* entry whose name is the queried name and that matched no structural signal
C30_Witness ==
    /\ pc = "returned"
    /\ ~warned
    /\ Len(similarPatterns) > 0
    /\ \E k \in C30_EntriesNamed(query.blockName) :
          /\ fs.entries[k].file = "ok"
          /\ ~C30_StructuralMatch(k)
          /\ \A i \in 1..Len(similarPatterns) :
                similarPatterns[i].blockName # query.blockName

=============================================================================
